---- MODULE Spec2Model ----
(***************************************************************************)
(* Model of the baseline / evidence / hypothesis-evaluation engine:        *)
(*   src/agents/evaluator.py, src/utils/baseline.py,                       *)
(*   src/utils/thresholds.py, src/agents/data_agent.py (summarize_df),     *)
(*   src/utils/alerts.py, src/utils/retry_utils.py, src/utils/schema.py,   *)
(*   src/utils/llm_validation.py and src/orchestrator/orchestrator.py.     *)
(* Spec follows one pipeline; SpecRuns follows several runs of             *)
(* orchestrator.run on the files they share.                               *)
(*                                                                         *)
(* Python floats are modelled as tagged values: a finite number is         *)
(* [t |-> "num", v |-> n] where n counts units of 1/Scale, and the         *)
(* non-finite floats and the non-float Python objects have their own tags. *)
(* A Python dict is a TLA+ function from key strings; a missing key is a   *)
(* key outside its DOMAIN; the empty dict is the empty function << >>.     *)
(***************************************************************************)
EXTENDS Integers, Sequences, FiniteSets, TLC

\* ------------------------------------------------------------------ bounds
\* longest hypothesis batch handed to validate
MaxHyps == 2
\* largest number of calendar days in a generated dataset
MaxDays == 8
\* the largest max_retries of a call of retry_with_backoff
MaxRetries == 3
\* the runs of orchestrator.run started in all
MaxRuns == 3

\* ------------------------------------------------------- fixed-point floats
\* 1.0 in model units (five decimals)
Scale == 10 * 10000

F(n) == [t |-> "num", v |-> n]
PosInf == [t |-> "inf", v |-> 0]
NegInf == [t |-> "ninf", v |-> 0]
NaN == [t |-> "nan", v |-> 0]
\* a non-numeric string such as "not-a-number"
Str == [t |-> "str", v |-> 0]
\* Python None
None == [t |-> "none", v |-> 0]

IsFloat(x) == x.t \in {"num", "inf", "ninf", "nan"}
isnan(x) == x.t = "nan"
IsFinite(x) == x.t = "num"

\* float comparison a < b (every comparison with NaN is false)
Lt(a, b) ==
    CASE a.t = "nan" \/ b.t = "nan" -> FALSE
      [] a.t = "ninf" -> b.t # "ninf"
      [] a.t = "inf" -> FALSE
      [] b.t = "inf" -> TRUE
      [] b.t = "ninf" -> FALSE
      [] OTHER -> a.v < b.v

\* float comparison a >= b
Ge(a, b) ==
    CASE a.t = "nan" \/ b.t = "nan" -> FALSE
      [] b.t = "ninf" -> TRUE
      [] a.t = "inf" -> TRUE
      [] a.t = "ninf" -> FALSE
      [] b.t = "inf" -> FALSE
      [] OTHER -> a.v >= b.v

\* float equality a == b
FEq(a, b) ==
    CASE a.t = "nan" \/ b.t = "nan" -> FALSE
      [] a.t = "num" /\ b.t = "num" -> a.v = b.v
      [] OTHER -> a.t = b.t

Abs(n) == IF n < 0 THEN -n ELSE n
Sgn(n) == IF n < 0 THEN -1 ELSE 1

\* Op(x) with x evaluated once: the value of x is bound before Op reads it
WithValue(x, Op(_)) == CHOOSE r \in {Op(v) : v \in {x}} : TRUE

\* floor(a * 10^k / b) for a >= 0, b > 0, digit by digit (no wide products)
RECURSIVE LongDiv(_, _, _)
LongDiv(a, b, k) ==
    IF k = 0 THEN a \div b
    ELSE (a \div b) * (10 ^ k) + LongDiv((a % b) * 10, b, k - 1)

\* the float quotient a / b (b # 0) in model units, rounded to the nearest unit
RDiv(a, b) ==
    WithValue(<<a, b>>, LAMBDA p :
        Sgn(p[1]) * Sgn(p[2]) * ((LongDiv(Abs(p[1]), Abs(p[2]), 6) + 5) \div 10))

\* the float product a * z (a >= 0, z >= 0, both in model units) in model
\* units, rounded down, without wide products
FMul(a, z) ==
    WithValue(<<(a \div 1000) * z, (a % 1000) * z>>, LAMBDA p :
        p[1] \div 100 + ((p[1] % 100) * 1000 + p[2]) \div Scale)

\* largest r with r * r <= n, by bisection on lo..hi
RECURSIVE SqrtBS(_, _, _)
SqrtBS(n, lo, hi) ==
    WithValue(<<lo, hi>>, LAMBDA p :
        IF p[1] >= p[2] THEN p[1]
        ELSE WithValue((p[1] + p[2] + 1) \div 2, LAMBDA mid :
                IF mid * mid <= n THEN SqrtBS(n, mid, p[2])
                ELSE SqrtBS(n, p[1], mid - 1)))

ISqrt(n) == WithValue(n, LAMBDA v : SqrtBS(v, 0, 40000))

RECURSIVE SumTo(_, _)
SumTo(s, n) == IF n = 0 THEN 0 ELSE s[n] + SumTo(s, n - 1)

\* the sum of a sequence of integers
SumSeq(s) == WithValue(s, LAMBDA v : SumTo(v, Len(v)))

\* the place of s[i] in s sorted in ascending order (equal values keep
\* their order)
RankAsc(s, i) ==
    Cardinality({j \in DOMAIN s : s[j] < s[i] \/ (s[j] = s[i] /\ j < i)}) + 1

SortAsc(s) ==
    WithValue(s, LAMBDA v :
        [k \in 1..Len(v) |-> v[CHOOSE i \in DOMAIN v : RankAsc(v, i) = k]])

SetMax(S) == CHOOSE x \in S : \A y \in S : y <= x
SetMin(S) == CHOOSE x \in S : \A y \in S : x <= y

\* dict.get(key, default)
Get(d, k, default) == IF k \in DOMAIN d THEN d[k] ELSE default

\* a Python object that is either a dict (d holds its items) or not a record
Dict(d) == [isdict |-> TRUE, d |-> d]
NotADict == [isdict |-> FALSE, d |-> << >>]

\* ------------------------------------------------------------- the dataset
\* A row of the input table: date is a calendar day number (0 stands for a
\* null / unparseable date), campaign a campaign number (0 stands for a null
\* campaign); spend, revenue, impressions and clicks are whole amounts.
Row(d, c, sp, rev, impr, cl) ==
    [date |-> d, campaign |-> c, spend |-> sp, revenue |-> rev,
     impressions |-> impr, clicks |-> cl]

Column(rows, k) == [i \in DOMAIN rows |-> rows[i][k]]

\* the calendar days of the rows that carry a date
DatesOf(rows) == {rows[i].date : i \in DOMAIN rows} \ {0}

RowsOn(rows, d) == SelectSeq(rows, LAMBDA r : r.date = d)

\* the sums of one group of rows
group_sums(rs) ==
    [spend |-> SumSeq(Column(rs, "spend")),
     revenue |-> SumSeq(Column(rs, "revenue")),
     impressions |-> SumSeq(Column(rs, "impressions")),
     clicks |-> SumSeq(Column(rs, "clicks"))]

\* df.groupby(pd.Grouper(key=date, freq="D")).agg(sum): one bin for every
\* calendar day from the first to the last date, empty bins summing to 0
daily_groups(rows) ==
    WithValue(<<rows, DatesOf(rows)>>, LAMBDA p :
        IF p[2] = {} THEN << >>
        ELSE WithValue(<<SetMin(p[2]), SetMax(p[2])>>, LAMBDA b :
                [i \in 1..(b[2] - b[1] + 1) |->
                    WithValue(group_sums(RowsOn(p[1], b[1] + i - 1)), LAMBDA g :
                        [date |-> b[1] + i - 1,
                         spend |-> g.spend,
                         revenue |-> g.revenue,
                         impressions |-> g.impressions,
                         clicks |-> g.clicks])]))

\* ------------------------------------------------ src/agents/data_agent.py
\* the daily ROAS series of summarize_df (lines 171-202)
daily_roas_of(rows) ==
    WithValue(daily_groups(rows), LAMBDA daily :
        [i \in DOMAIN daily |->
            [date |-> daily[i].date,
             roas |-> IF daily[i].spend > 0
                      THEN F(RDiv(daily[i].revenue, daily[i].spend))
                      ELSE F(0)]])

\* the place of s[i] in s sorted by spend in descending order (a stable sort)
RankBySpendDesc(s, i) ==
    Cardinality({j \in DOMAIN s :
        s[j].spend > s[i].spend \/ (s[j].spend = s[i].spend /\ j < i)}) + 1

\* sorted(rows, key=spend, reverse=True)
SortBySpendDesc(s) ==
    WithValue(s, LAMBDA v :
        [k \in 1..Len(v) |-> v[CHOOSE i \in DOMAIN v : RankBySpendDesc(v, i) = k]])

\* a campaign aggregate whose divisions are guarded against zero only
campaign_row_nonzero_guard(rows, c) ==
    WithValue(group_sums(SelectSeq(rows, LAMBDA r : r.campaign = c)), LAMBDA g :
        [campaign |-> c,
         spend |-> g.spend,
         impressions |-> g.impressions,
         clicks |-> g.clicks,
         ctr |-> IF g.impressions # 0 THEN F(RDiv(g.clicks, g.impressions)) ELSE F(0),
         revenue |-> g.revenue,
         roas |-> IF g.spend # 0 THEN F(RDiv(g.revenue, g.spend)) ELSE F(0)])

\* one aggregate per campaign of the rows that carry one (lines 232-258)
campaign_row(rows, c) ==
    WithValue(group_sums(SelectSeq(rows, LAMBDA r : r.campaign = c)), LAMBDA g :
        [campaign |-> c,
         spend |-> g.spend,
         impressions |-> g.impressions,
         clicks |-> g.clicks,
         ctr |-> IF g.impressions > 0 THEN F(RDiv(g.clicks, g.impressions)) ELSE F(0),
         revenue |-> g.revenue,
         roas |-> IF g.spend > 0 THEN F(RDiv(g.revenue, g.spend)) ELSE F(0)])

\* groupby(campaign): the campaigns in ascending order (lines 215-230)
campaign_rows(rows, cs) ==
    [k \in 1..Cardinality(cs) |->
        campaign_row(rows, CHOOSE c \in cs : Cardinality({x \in cs : x < c}) = k - 1)]

by_campaign_of(rows) ==
    WithValue(rows, LAMBDA rs :
        SortBySpendDesc(campaign_rows(rs, {rs[i].campaign : i \in DOMAIN rs} \ {0})))

summarize_df(rows) ==
    WithValue(rows, LAMBDA rs :
        [global |->
            [total_spend |-> SumSeq(Column(rs, "spend")),
             total_revenue |-> SumSeq(Column(rs, "revenue")),
             total_impressions |-> SumSeq(Column(rs, "impressions")),
             total_clicks |-> SumSeq(Column(rs, "clicks")),
             daily_roas |-> daily_roas_of(rs)],
         by_campaign |-> by_campaign_of(rs)])

\* ------------------------------------------------- src/utils/thresholds.py
window_days_default == 30
min_days_default == 7
\* z-scores and the floor of the ROAS threshold, in model units
ctr_z_default == 150000
roas_z_default == Scale
min_threshold_default == 8000

Mean(s) == WithValue(s, LAMBDA v : SumSeq(v) \div Len(v))

\* Series.std(ddof=0) of values in model units, computed to three decimals
StdDev0(s) ==
    WithValue(<<s, Mean(s)>>, LAMBDA p :
        ISqrt(SumSeq([i \in DOMAIN p[1] |->
                        ((p[1][i] - p[2]) \div 100) * ((p[1][i] - p[2]) \div 100)])
              \div Len(p[1])) * 100)

\* Series.median()
Median(s) ==
    WithValue(SortAsc(s), LAMBDA o :
        IF Len(o) % 2 = 1 THEN o[(Len(o) + 1) \div 2]
        ELSE (o[Len(o) \div 2] + o[Len(o) \div 2 + 1]) \div 2)

\* the daily bins whose ratio num / den is not NaN (den # 0), with the ratio
valid_days(rows, num, den) ==
    WithValue(SelectSeq(daily_groups(rows), LAMBDA g : g[den] # 0), LAMBDA daily :
        [i \in DOMAIN daily |->
            [date |-> daily[i].date, ratio |-> RDiv(daily[i][num], daily[i][den])]])

\* a float kept to six decimals, in units of 1e-6 (ten to a model unit): the
\* CTR threshold, whose floor 1e-6 is below one model unit
Micro(n) == [t |-> "micro", v |-> n]

\* the small-sample record of compute_global_ctr_baseline (lines 52-62)
ctr_fallback(dated, rows_used) ==
    WithValue(<<SumSeq(Column(dated, "clicks")), SumSeq(Column(dated, "impressions"))>>,
      LAMBDA p :
        WithValue(IF p[2] > 0 THEN RDiv(p[1], p[2]) ELSE 0, LAMBDA base :
            [baseline_ctr |-> F(base),
             ctr_std |-> F(0),
             ctr_low_threshold |-> Micro(IF base * 5 > 1 THEN base * 5 ELSE 1),
             rows_used |-> rows_used]))

\* the windowed record with a threshold that has no floor
ctr_windowed_unfloored(daily, window_days, z_score) ==
    WithValue(Column(IF Len(daily) > window_days
                     THEN SelectSeq(daily,
                            LAMBDA g : g.date > daily[Len(daily)].date - window_days)
                     ELSE daily, "ratio"),
      LAMBDA vals :
        WithValue(<<Mean(vals), IF Len(vals) > 1 THEN StdDev0(vals) ELSE 0>>, LAMBDA p :
            [baseline_ctr |-> F(p[1]),
             ctr_std |-> F(p[2]),
             ctr_low_threshold |-> Micro((p[1] - FMul(p[2], z_score)) * 10),
             rows_used |-> Len(daily)]))

\* the windowed record of compute_global_ctr_baseline (lines 64-78)
ctr_windowed(daily, window_days, z_score) ==
    WithValue(Column(IF Len(daily) > window_days
                     THEN SelectSeq(daily,
                            LAMBDA g : g.date > daily[Len(daily)].date - window_days)
                     ELSE daily, "ratio"),
      LAMBDA vals :
        WithValue(<<Mean(vals), IF Len(vals) > 1 THEN StdDev0(vals) ELSE 0>>, LAMBDA p :
            WithValue(<<(p[1] - FMul(p[2], z_score)) * 10,
                        IF 3 * p[1] > 1 THEN 3 * p[1] ELSE 1>>, LAMBDA t :
                [baseline_ctr |-> F(p[1]),
                 ctr_std |-> F(p[2]),
                 ctr_low_threshold |-> Micro(IF t[1] >= t[2] THEN t[1] ELSE t[2]),
                 rows_used |-> Len(daily)])))

compute_global_ctr_baseline(rows, window_days, min_days, z_score) ==
    WithValue(<<valid_days(rows, "clicks", "impressions"),
                SelectSeq(rows, LAMBDA r : r.date # 0)>>, LAMBDA p :
        IF Len(p[1]) < min_days
        THEN ctr_fallback(p[2], Len(p[1]))
        ELSE ctr_windowed(p[1], window_days, z_score))

\* the day-over-day changes of a ROAS series, rises counted like drops
positive_drops_and_rises(roas) ==
    WithValue(roas, LAMBDA v :
        WithValue([i \in DOMAIN v |->
                     IF i > 1 /\ v[i - 1] # 0
                     THEN Abs(RDiv(v[i - 1] - v[i], v[i - 1])) ELSE 0],
          LAMBDA drops : SelectSeq(drops, LAMBDA x : x > 0)))

\* the positive day-over-day drops (prev - roas) / prev of a ROAS series
positive_drops(roas) ==
    WithValue(roas, LAMBDA v :
        WithValue([i \in DOMAIN v |->
                     IF i > 1 /\ v[i - 1] # 0 THEN RDiv(v[i - 1] - v[i], v[i - 1]) ELSE 0],
          LAMBDA drops : SelectSeq(drops, LAMBDA x : x > 0)))

compute_roas_drop_threshold(rows, window_days, min_days, z_score, min_threshold) ==
    WithValue(valid_days(rows, "revenue", "spend"), LAMBDA daily :
        WithValue(IF Len(daily) < min_days THEN << >>
                  ELSE positive_drops(Column(daily, "ratio")), LAMBDA drops :
            IF drops = << >>
            THEN [median_drop |-> F(0),
                  drop_std |-> F(0),
                  roas_drop_threshold |-> F(min_threshold),
                  rows_used |-> Len(daily)]
            ELSE WithValue(<<Median(drops),
                             IF Len(drops) > 1 THEN StdDev0(drops) ELSE 0>>, LAMBDA p :
                    WithValue(p[1] + FMul(p[2], z_score), LAMBDA threshold :
                        [median_drop |-> F(p[1]),
                         drop_std |-> F(p[2]),
                         roas_drop_threshold |->
                             F(IF threshold >= min_threshold
                               THEN threshold ELSE min_threshold),
                         rows_used |-> Len(daily)]))))

compute_dynamic_thresholds(rows) ==
    WithValue(<<compute_global_ctr_baseline(rows, window_days_default,
                                            min_days_default, ctr_z_default),
                compute_roas_drop_threshold(rows, window_days_default,
                                            min_days_default, roas_z_default,
                                            min_threshold_default)>>, LAMBDA p :
        [ctr_baseline |-> p[1],
         roas_baseline |-> p[2],
         ctr_low_threshold |-> p[1].ctr_low_threshold,
         roas_drop_threshold |-> p[2].roas_drop_threshold,
         rows_used |-> IF p[1].rows_used >= p[2].rows_used
                       THEN p[1].rows_used ELSE p[2].rows_used])

\* what a call that raises leaves its caller with: the exception
Raised(e) == [raised |-> e]

\* a dataset with its columns: the rows carry every field, and a field whose
\* column is absent is never read
Frame(cols, rows) == [isdf |-> TRUE, rows |-> rows, cols |-> cols]

\* compute_global_ctr_baseline on a dataset df, with its guard on the columns
\* (lines 30-41)
ctr_baseline_of_df(df, window_days, min_days, z_score) ==
    IF ~({"date", "impressions", "clicks"} \subseteq df.cols)
    THEN [baseline_ctr |-> F(0),
          ctr_std |-> F(0),
          ctr_low_threshold |-> Micro(10000),
          rows_used |-> 0]
    ELSE compute_global_ctr_baseline(df.rows, window_days, min_days, z_score)

\* compute_roas_drop_threshold on a dataset df, with its guard on the columns
\* (lines 96-107)
roas_drop_threshold_of_df(df, window_days, min_days, z_score, min_threshold) ==
    IF ~({"date", "revenue", "spend"} \subseteq df.cols)
    THEN [median_drop |-> F(0),
          drop_std |-> F(0),
          roas_drop_threshold |-> F(min_threshold),
          rows_used |-> 0]
    ELSE compute_roas_drop_threshold(df.rows, window_days, min_days, z_score,
                                     min_threshold)

\* ------------------------------------------------ src/agents/data_agent.py
\* summarize_df on a dataset df: absent columns give zero totals and empty
\* series (lines 155-169, 172, 203-204, 208-213, 262-266)
summarize_df_of(df) ==
    WithValue(df, LAMBDA f :
        [global |->
            [total_spend |->
                IF "spend" \in f.cols THEN SumSeq(Column(f.rows, "spend")) ELSE 0,
             total_revenue |->
                IF "revenue" \in f.cols THEN SumSeq(Column(f.rows, "revenue")) ELSE 0,
             total_impressions |->
                IF "impressions" \in f.cols
                THEN SumSeq(Column(f.rows, "impressions")) ELSE 0,
             total_clicks |->
                IF "clicks" \in f.cols THEN SumSeq(Column(f.rows, "clicks")) ELSE 0,
             daily_roas |->
                IF {"date", "spend", "revenue"} \subseteq f.cols
                THEN daily_roas_of(f.rows) ELSE << >>],
         by_campaign |->
            IF {"campaign", "spend", "impressions", "clicks", "revenue"} \subseteq f.cols
            THEN by_campaign_of(f.rows) ELSE << >>])

\* --------------------------------------------------- src/utils/baseline.py
\* the record of compute_global_baselines without a valid day (lines 34-43,
\* 56-65)
zero_baselines ==
    [ctr_baseline |-> F(0), ctr_pctile_10 |-> F(0), ctr_pctile_90 |-> F(0),
     roas_baseline |-> F(0), roas_pctile_10 |-> F(0), roas_pctile_90 |-> F(0),
     rows_used |-> 0]

\* np.percentile(arr, q) of a non-empty series: linear interpolation
Percentile(s, q) ==
    WithValue(SortAsc(s), LAMBDA o :
        WithValue(<<(q * (Len(o) - 1)) \div 100, (q * (Len(o) - 1)) % 100>>, LAMBDA p :
            IF p[2] = 0 THEN o[p[1] + 1]
            ELSE o[p[1] + 1] + ((o[p[1] + 2] - o[p[1] + 1]) * p[2]) \div 100))

\* _safe_stats: mean, 10th and 90th percentile (lines 76-82)
safe_stats(arr) ==
    WithValue(arr, LAMBDA a :
        IF a = << >> THEN <<0, 0, 0>>
        ELSE <<Mean(a), Percentile(a, 10), Percentile(a, 90)>>)

\* the daily bins whose ctr and roas are both not NaN (lines 52-54)
valid_days_both(rows) ==
    WithValue(SelectSeq(daily_groups(rows),
                        LAMBDA g : g.impressions # 0 /\ g.spend # 0), LAMBDA daily :
        [i \in DOMAIN daily |->
            [date |-> daily[i].date,
             ctr |-> RDiv(daily[i].clicks, daily[i].impressions),
             roas |-> RDiv(daily[i].revenue, daily[i].spend)]])

\* compute_global_baselines on a dataset df (lines 33-95): the aggregation
\* raises KeyError when the date column is present and a metric column is not
compute_global_baselines(df, window_days) ==
    IF "date" \notin df.cols THEN zero_baselines
    ELSE IF ~({"impressions", "clicks", "revenue", "spend"} \subseteq df.cols)
    THEN Raised("KeyError")
    ELSE WithValue(valid_days_both(df.rows), LAMBDA daily :
            IF Len(daily) = 0 THEN zero_baselines
            ELSE WithValue(IF Len(daily) > window_days
                           THEN SelectSeq(daily, LAMBDA g :
                                    g.date > daily[Len(daily)].date - window_days)
                           ELSE daily, LAMBDA window :
                    WithValue(<<safe_stats(Column(window, "ctr")),
                                safe_stats(Column(window, "roas"))>>, LAMBDA p :
                        [ctr_baseline |-> F(p[1][1]),
                         ctr_pctile_10 |-> F(p[1][2]),
                         ctr_pctile_90 |-> F(p[1][3]),
                         roas_baseline |-> F(p[2][1]),
                         roas_pctile_10 |-> F(p[2][2]),
                         roas_pctile_90 |-> F(p[2][3]),
                         rows_used |-> Len(daily)])))

\* _pct_delta that gives 0.0 for every zero baseline
pct_delta_zero_for_zero_baseline(latest, baseline_val) ==
    WithValue(<<latest, baseline_val>>, LAMBDA p :
        IF p[2].v = 0 THEN F(0)
        ELSE F(RDiv(p[1].v - p[2].v, p[2].v)))

\* _pct_delta of two finite floats
pct_delta(latest, baseline_val) ==
    WithValue(<<latest, baseline_val>>, LAMBDA p :
        IF p[2].v = 0
        THEN (IF p[1].v = 0 THEN F(0) ELSE PosInf)
        ELSE F(RDiv(p[1].v - p[2].v, p[2].v)))

\* last_roas read from the first element of daily_roas
last_roas_of_first(summary) ==
    WithValue(Get(Get(summary, "global", << >>), "daily_roas", << >>), LAMBDA daily :
        IF daily # << >> THEN Get(daily[1], "roas", F(0)) ELSE F(0))

\* last_roas: the roas of the last element of daily_roas (lines 108-113)
last_roas_of(summary) ==
    WithValue(Get(Get(summary, "global", << >>), "daily_roas", << >>), LAMBDA daily :
        IF daily # << >> THEN Get(daily[Len(daily)], "roas", F(0)) ELSE F(0))

\* last_ctr: total clicks / total impressions over by_campaign (lines 115-122)
last_ctr_of(summary) ==
    WithValue(Get(summary, "by_campaign", << >>), LAMBDA by_campaign :
        WithValue(<<SumSeq(Column(by_campaign, "impressions")),
                    SumSeq(Column(by_campaign, "clicks"))>>, LAMBDA tot :
            IF tot[1] > 0 THEN F(RDiv(tot[2], tot[1])) ELSE F(0)))

evidence_from_summary_and_baseline(summary, baseline) ==
    WithValue(<<last_ctr_of(summary), last_roas_of(summary), baseline>>, LAMBDA p :
        [last_ctr |-> p[1],
         ctr_baseline |-> Get(p[3], "ctr_baseline", F(0)),
         ctr_delta_pct |-> pct_delta(p[1], Get(p[3], "ctr_baseline", F(0))),
         last_roas |-> p[2],
         roas_baseline |-> Get(p[3], "roas_baseline", F(0)),
         roas_delta_pct |-> pct_delta(p[2], Get(p[3], "roas_baseline", F(0))),
         rows_used_for_baseline |-> Get(p[3], "rows_used", 0)])

\* -------------------------------------------------- src/agents/evaluator.py
safe_float(v, default) ==
    IF v.t = "none" THEN default
    ELSE IF IsFloat(v) THEN v
    ELSE default

\* normalize_confidence without the upper clamp
normalize_confidence_unclamped(v) ==
    LET x == safe_float(v, F(0))
    IN  IF isnan(x) THEN F(0)
        ELSE IF x.t = "inf" THEN F(Scale)
        ELSE IF x.t = "ninf" THEN F(0)
        ELSE IF x.v < 0 THEN F(0)
        ELSE x

\* normalize_confidence with 0.5 for what is no number
normalize_confidence_default_half(v) ==
    LET x == safe_float(v, F(50000))
    IN  IF isnan(x) THEN F(0)
        ELSE IF x.t = "inf" THEN F(Scale)
        ELSE IF x.t = "ninf" THEN F(0)
        ELSE IF x.v > Scale THEN F(Scale)
        ELSE IF x.v < 0 THEN F(0)
        ELSE x

normalize_confidence(v) ==
    LET x == safe_float(v, F(0))
    IN  IF isnan(x) THEN F(0)
        ELSE IF x.t = "inf" THEN F(Scale)
        ELSE IF x.t = "ninf" THEN F(0)
        ELSE IF x.v > Scale THEN F(Scale)
        ELSE IF x.v < 0 THEN F(0)
        ELSE x

\* _severity_from_delta with the break points in the harsher tier
severity_from_delta_inclusive(delta) ==
    IF FEq(delta, PosInf) THEN "critical"
    ELSE IF Ge(F(-40000), delta) THEN "high"
    ELSE IF Ge(F(-20000), delta) THEN "medium"
    ELSE IF Ge(F(-5000), delta) THEN "low"
    ELSE "none"

severity_from_delta(delta) ==
    IF FEq(delta, PosInf) THEN "critical"
    ELSE IF Lt(delta, F(-40000)) THEN "high"
    ELSE IF Lt(delta, F(-20000)) THEN "medium"
    ELSE IF Lt(delta, F(-5000)) THEN "low"
    ELSE "none"

severity_rank ==
    [none |-> 0, low |-> 1, medium |-> 2, high |-> 3, critical |-> 4]

\* round(x, 4): the nearest multiple of 1e-4 (x finite, not on a tie)
Round4(x) == F(Sgn(x.v) * (((Abs(x.v) + 5) \div 10) * 10))

\* impact_of with the comparison reversed: the weaker severity is kept
impact_of_weaker(evidence) ==
    LET ctr_sev == severity_from_delta(Get(evidence, "ctr_delta_pct", F(0)))
        roas_sev == severity_from_delta(Get(evidence, "roas_delta_pct", F(0)))
    IN  IF severity_rank[ctr_sev] <= severity_rank[roas_sev]
        THEN ctr_sev ELSE roas_sev

\* impact = the stronger of the two severities (lines 61-67)
impact_of(evidence) ==
    LET ctr_sev == severity_from_delta(Get(evidence, "ctr_delta_pct", F(0)))
        roas_sev == severity_from_delta(Get(evidence, "roas_delta_pct", F(0)))
    IN  IF severity_rank[ctr_sev] >= severity_rank[roas_sev]
        THEN ctr_sev ELSE roas_sev

\* adj_conf_of with the boost of a low impact given to a medium one as well
adj_conf_of_medium_low(base_conf, impact) ==
    IF impact \in {"high", "critical"}
    THEN (IF base_conf.v + 25000 < Scale THEN F(base_conf.v + 25000) ELSE F(Scale))
    ELSE IF impact \in {"low", "medium"}
    THEN (IF base_conf.v + 10000 < Scale THEN F(base_conf.v + 10000) ELSE F(Scale))
    ELSE base_conf

\* adj_conf: the confidence boosted by the impact (lines 69-74)
adj_conf_of(base_conf, impact) ==
    IF impact \in {"medium", "high", "critical"}
    THEN (IF base_conf.v + 25000 < Scale THEN F(base_conf.v + 25000) ELSE F(Scale))
    ELSE IF impact = "low"
    THEN (IF base_conf.v + 10000 < Scale THEN F(base_conf.v + 10000) ELSE F(Scale))
    ELSE base_conf

\* min_conf_of with the default 0.5 of the orchestrated variant
min_conf_of_default_half(cfg) == safe_float(Get(cfg, "confidence_min", F(50000)), F(0))

\* min_conf = _safe_float(cfg.get("confidence_min", 0.3)) (line 77)
min_conf_of(cfg) == safe_float(Get(cfg, "confidence_min", F(30000)), F(0))

\* what _evaluate_one needs in order not to raise: h.get and cfg.get exist
evaluate_one_raises(h, cfg) == ~h.isdict \/ ~cfg.isdict

\* the record _evaluate_one returns when it does not raise
evaluate_one(h, evidence, cfg) ==
    LET base_conf == normalize_confidence(Get(h.d, "initial_confidence", F(0)))
        impact == impact_of(evidence)
        adj_conf == adj_conf_of(base_conf, impact)
        min_conf == min_conf_of(cfg.d)
    IN  [id |-> Get(h.d, "id", None),
         hypothesis |-> Get(h.d, "hypothesis", ""),
         impact |-> impact,
         confidence |-> Round4(adj_conf),
         passed |-> Ge(adj_conf, min_conf),
         evidence |->
            [ctr_delta_pct |-> Get(evidence, "ctr_delta_pct", F(0)),
             roas_delta_pct |-> Get(evidence, "roas_delta_pct", F(0)),
             last_ctr |-> Get(evidence, "last_ctr", F(0)),
             ctr_baseline |-> Get(evidence, "ctr_baseline", F(0)),
             last_roas |-> Get(evidence, "last_roas", F(0)),
             roas_baseline |-> Get(evidence, "roas_baseline", F(0)),
             rows_used_for_baseline |-> Get(evidence, "rows_used_for_baseline", 0)]]

\* the degraded record the except branch of validate appends (lines 131-142)
degraded(h) ==
    [id |-> Get(h.d, "id", None),
     hypothesis |-> Get(h.d, "hypothesis", ""),
     impact |-> "none",
     confidence |-> F(0),
     passed |-> FALSE,
     evidence |-> << >>,
     error |-> TRUE]

\* validate, lines 122-125: the thresholds, the record taken for the
\* baseline, and the evidence, for a dataset df (NoDf when df is None)
DataFrame(rows) == [isdf |-> TRUE, rows |-> rows]
NoDf == [isdf |-> FALSE, rows |-> << >>]

dynamic_of(df) == IF df.isdf THEN compute_dynamic_thresholds(df.rows) ELSE << >>

baseline_of(df) == Get(dynamic_of(df), "roas_baseline", << >>)

NumPassed(vs) == Len(SelectSeq(vs, LAMBDA v : v.passed))

\* metrics that count every Verdict as passed
metrics_of_counts_all(vs, base) ==
    [validation_rate |-> F(RDiv(Len(vs), IF Len(vs) > 1 THEN Len(vs) ELSE 1)),
     num_hypotheses |-> Len(vs),
     num_passed |-> Len(vs),
     ctr_baseline |-> Get(base, "ctr_baseline", F(0)),
     roas_baseline |-> Get(base, "roas_baseline", F(0))]

\* validate, lines 144-152
metrics_of(vs, base) ==
    [validation_rate |-> F(RDiv(NumPassed(vs), IF Len(vs) > 1 THEN Len(vs) ELSE 1)),
     num_hypotheses |-> Len(vs),
     num_passed |-> NumPassed(vs),
     ctr_baseline |-> Get(base, "ctr_baseline", F(0)),
     roas_baseline |-> Get(base, "roas_baseline", F(0))]

\* ------------------------------------------------------------------ inputs
Id(n) == [t |-> "str", v |-> n]
Hyp(n, c) == Dict([id |-> Id(n), hypothesis |-> "text", initial_confidence |-> c])

\* initial_confidence values: out of range, non-finite, non-numeric, None,
\* and in-range values with four and with five decimals
ConfInputs ==
    {F(5 * Scale), F(-50000), NaN, PosInf, NegInf, Str, None,
     F(0), F(4000), F(29996), F(80000), F(95000)}

\* the hypotheses of a batch handed to validate
HypInputs ==
    {Hyp(1, F(5 * Scale)), Hyp(2, F(-50000)), Hyp(2, Str),
     Hyp(1, F(29996)), Hyp(2, F(80000)), Hyp(1, F(4000)),
     Dict([initial_confidence |-> NaN]), NotADict}

Batches == UNION {[1..n -> HypInputs] : n \in 0..MaxHyps}

\* configs: no confidence_min, numeric ones, a non-numeric one, not a record
CfgInputs ==
    {Dict(<< >>), Dict([confidence_min |-> F(20000)]), Dict([confidence_min |-> F(50000)]),
     Dict([confidence_min |-> Str]), NotADict}

\* n consecutive days of one campaign, spend and revenue constant except for
\* the revenue of the last day
GenRows(n, sp, rev, last_rev) ==
    [i \in 1..n |-> Row(i, 1, sp, IF i = n THEN last_rev ELSE rev, 1000, 10)]

DayCounts == {0, 2, min_days_default, MaxDays}

DataInputs ==
    {NoDf} \cup
    {DataFrame(GenRows(n, sp, rev, rev \div k)) :
        n \in DayCounts, sp \in {0, 100}, rev \in {300}, k \in {1, 10}}

SummaryInputs(df) ==
    IF df.isdf THEN {<< >>, summarize_df(df.rows)}
    ELSE {<< >>, summarize_df(GenRows(2, 100, 300, 30))}

\* summaries handed directly to the evidence builder: the ROAS of the last
\* day and the clicks of one campaign with 1000 impressions
LastRoasInputs ==
    {0, 30000, 150000, 180000, 240000, 285000, 3 * Scale, 450000}

UnitSummary(r, cl) ==
    [global |-> [daily_roas |-> <<[date |-> 1, roas |-> F(3 * Scale)],
                                  [date |-> 2, roas |-> F(r)]>>],
     by_campaign |-> <<[campaign |-> 1, impressions |-> 1000, clicks |-> cl]>>]

UnitSummaries == {UnitSummary(r, cl) : r \in LastRoasInputs, cl \in {0, 9, 10}}

\* baselines handed directly to the evidence builder
BaselineInputs ==
    {[ctr_baseline |-> F(1000), roas_baseline |-> F(3 * Scale), rows_used |-> 10],
     [ctr_baseline |-> F(0), roas_baseline |-> F(0), rows_used |-> 0],
     [median_drop |-> F(0), drop_std |-> F(0),
      roas_drop_threshold |-> F(min_threshold_default), rows_used |-> 2]}

\* every roas_delta_pct the evidence builder emits on these inputs
EmittableRoasDeltas ==
    {evidence_from_summary_and_baseline(s, b).roas_delta_pct :
        s \in UnitSummaries, b \in BaselineInputs}

\* evidence records handed directly to _evaluate_one: deltas at and around
\* the break points, and the infinite floats
DeltaInputs ==
    {NegInf, F(-90000), F(-40001), F(-40000), F(-20000), F(-5000), F(0), PosInf}

\* deltas handed directly to _severity_from_delta: the break points, their
\* neighbours at 1e-5, values inside every tier, and the non-finite floats
SeverityInputs ==
    {NegInf, F(-90000), F(-40001), F(-40000), F(-39999), F(-30000), F(-20001),
     F(-20000), F(-19999), F(-10000), F(-5001), F(-5000), F(-4999), F(0),
     F(5000), F(250000), PosInf, NaN}

EvidenceInputs ==
    {[ctr_delta_pct |-> a, roas_delta_pct |-> b] : a \in DeltaInputs, b \in DeltaInputs}

\* datasets handed directly to the baseline, threshold and summary
\* functions; a day is <<date, spend, revenue, impressions, clicks>>, and
\* date 0 is a date that does not parse
DayRows(days) ==
    [i \in DOMAIN days |->
        Row(days[i][1], 1, days[i][2], days[i][3], days[i][4], days[i][5])]

\* no row; zero denominators only; two days of unequal volume; a row without
\* a date; a series with a gap; a series whose old days differ from its
\* recent ones; a series with rises, falls and a day of ROAS 0; rows out of
\* date order with two rows on the last day; rows out of date order whose
\* last day has a negative spend; rows of three campaigns, one with zero and
\* one with negative denominators, a row without a campaign and a row
\* without a date
StatsRows ==
    {DayRows(<< >>),
     DayRows(<<<<1, 0, 0, 0, 0>>, <<2, 0, 0, 0, 0>>, <<3, 0, 0, 0, 0>>>>),
     DayRows(<<<<1, 100, 300, 1000, 10>>, <<2, 50, 50, 100, 10>>>>),
     DayRows(<<<<0, 100, 900, 1000, 50>>, <<1, 100, 300, 1000, 10>>>>),
     DayRows(<<<<1, 100, 900, 1000, 100>>, <<5, 100, 300, 1000, 10>>,
               <<6, 100, 300, 1000, 20>>>>),
     DayRows(<<<<1, 100, 900, 1000, 100>>, <<2, 100, 100, 1000, 50>>,
               <<3, 100, 300, 1000, 10>>, <<4, 100, 300, 1000, 10>>,
               <<5, 100, 300, 1000, 20>>>>),
     DayRows(<<<<1, 100, 300, 1000, 10>>, <<2, 100, 0, 1000, 20>>,
               <<3, 100, 200, 1000, 10>>, <<4, 100, 100, 1000, 30>>,
               <<5, 100, 150, 1000, 10>>, <<6, 100, 75, 1000, 20>>>>),
     DayRows(<<<<3, 100, 200, 1000, 10>>, <<1, 100, 900, 1000, 50>>,
               <<3, 100, 400, 1000, 30>>, <<2, 50, 50, 500, 10>>>>),
     DayRows(<<<<2, -50, 100, 1000, 10>>, <<1, 100, 300, 1000, 20>>>>),
     <<Row(1, 1, 100, 300, 1000, 10), Row(1, 2, 0, 50, 0, 5),
       Row(2, 0, 70, 10, 100, 1), Row(0, 1, 30, 60, 200, 5),
       Row(2, 3, -20, 40, -50, 2)>>}

AllColumns == {"date", "campaign", "spend", "revenue", "impressions", "clicks"}

\* every column, one column missing, no column at all
ColumnInputs ==
    {AllColumns, AllColumns \ {"date"}, AllColumns \ {"impressions"},
     AllColumns \ {"spend"}, AllColumns \ {"campaign"}, {}}

FrameInputs == {Frame(c, r) : c \in ColumnInputs, r \in StatsRows}

\* the keyword arguments of a call: window_days, min_days, z_score and
\* min_threshold
Params(w, m, z) ==
    Dict([window_days |-> w, min_days |-> m, z_score |-> z,
          min_threshold |-> min_threshold_default])

ParamInputs ==
    {Params(w, m, z) : w \in {3, window_days_default},
                       m \in {2, 3, min_days_default},
                       z \in {0, roas_z_default, ctr_z_default}}

\* d with d[k] set to v
\* ----------------------------------------------------- src/utils/alerts.py
\* a thresholds argument that is a float (or None) instead of a dict
FloatObj(x) == [isdict |-> FALSE, d |-> << >>, val |-> x]

\* threshold_val (lines 75-78)
threshold_val_of(thresholds) ==
    IF thresholds.isdict
    THEN safe_float(Get(thresholds.d, "roas_drop_threshold", F(20000)), F(20000))
    ELSE safe_float(thresholds.val, F(20000))

\* roas_drop, from the first key present (lines 83-92)
roas_drop_of(m) ==
    IF "roas_drop" \in DOMAIN m THEN safe_float(m.roas_drop, F(0))
    ELSE IF "estimated_roas_drop" \in DOMAIN m
    THEN safe_float(m.estimated_roas_drop, F(0))
    ELSE IF "validation_evidence" \in DOMAIN m
    THEN safe_float(Get(m.validation_evidence, "roas_drop",
                        Get(m.validation_evidence, "ctr_delta", F(0))), F(0))
    ELSE F(0)

\* a > b on floats
Gt(a, b) == Lt(b, a)

\* the rule (line 96)
triggered(roas_drop, threshold_val, validation_rate, no_creatives) ==
    \/ Gt(roas_drop, threshold_val) /\ Lt(validation_rate, F(50000))
    \/ no_creatives /\ Gt(roas_drop, threshold_val)

\* alert_rule_roas_drop (lines 62-119); reason is the token its text starts with
alert_rule_roas_drop(m, thresholds) ==
    WithValue(<<roas_drop_of(m), threshold_val_of(thresholds),
                safe_float(Get(m, "validation_rate", F(0)), F(0)),
                Get(m, "num_creatives", 0) = 0>>, LAMBDA p :
        [alerted |-> triggered(p[1], p[2], p[3], p[4]),
         reason |-> IF ~triggered(p[1], p[2], p[3], p[4]) THEN "no_alert"
                    ELSE IF p[4] /\ Gt(p[1], p[2])
                    THEN "no_creatives_and_roas_drop_exceeded"
                    ELSE "roas_drop_exceeded",
         detail |-> [roas_drop |-> p[1], validation_rate |-> p[3],
                     threshold_used |-> p[2]]])

\* metrics handed to alert_rule_roas_drop: validation rates on both sides of
\* 0.5, creatives or none, drops on both sides of the thresholds
RateInputs == {F(0), F(49999), F(50000), F(90000)}
DropInputs == {F(-10000), F(5000), F(20000), F(20001), F(30001), F(50000), NaN, PosInf}

AlertMetricsInputs ==
    {[validation_rate |-> r, num_creatives |-> n, roas_drop |-> d] :
        r \in RateInputs, n \in {0, 2}, d \in DropInputs}
    \cup {[validation_rate |-> r, roas_drop |-> d] : r \in RateInputs, d \in DropInputs}
    \cup {[num_creatives |-> 2, estimated_roas_drop |-> d] : d \in DropInputs}
    \cup {[validation_rate |-> F(0), num_creatives |-> 2,
           validation_evidence |-> e] :
            e \in {[roas_drop |-> F(50000)], [ctr_delta |-> F(50000)], << >>}}
    \cup {<< >>}

\* thresholds handed to alert_rule_roas_drop: records and bare floats
AlertThresholdInputs ==
    {Dict([roas_drop_threshold |-> F(20000)]), Dict([roas_drop_threshold |-> Str]),
     Dict(<< >>), FloatObj(F(30000)), FloatObj(None)}

SetKey(d, k, v) == [x \in DOMAIN d \cup {k} |-> IF x = k THEN v ELSE d[x]]

\* ----------------------------------------------------------- state machine
VARIABLES
    pc,         \* "retry", "retry_returned", "retry_raised"
                \* (retry_with_backoff); "run_loaded" .. "run_raised"
                \* (orchestrator.run, whose locals are df, summary, cfg,
                \* hypotheses, validated and metrics);
                \* "idle", "loop", "done", "raised" (validate);
                \* "retry_applied" (apply_retry_logic on the Verdicts of
                \* validate); "evidence",
                \* "evaluated", "compared" (direct calls of the evidence
                \* builder and of _evaluate_one); "baselines",
                \* "ctr_baseline", "roas_threshold", "summarized",
                \* "summary_evidence" (direct
                \* calls of the baseline, threshold and summary functions);
                \* "alert_rule" (a direct call of alert_rule_roas_drop,
                \* metrics and cfg its arguments, evidence its result);
                \* "severity" (a direct call of _severity_from_delta,
                \* evidence its argument and result)
    hypotheses, \* the batch handed to validate
    summary,    \* the summary handed to validate or to the evidence builder
    cfg,        \* the config
    df,         \* the dataset handed to validate (NoDf for None)
    baseline,   \* the record used as baseline
    evidence,   \* the evidence record shared by the evaluations of a call
    validated,  \* the Verdicts appended so far
    metrics,    \* the batch metrics (<< >> until validate returns)
    retry,      \* the locals of a call of retry_with_backoff
    extra,      \* the extra aggregates handed to apply_retry_logic
    files,      \* the files the runs share: the directory reports, the
                \* schema fingerprint and the alerts file, with the alerts
                \* handed to write_alert so far, in the order of the writes
    runs        \* the runs under way that work on these files, each with its
                \* position and its locals

vars == <<pc, hypotheses, summary, cfg, df, baseline, evidence, validated, metrics,
          retry, extra, files, runs>>

\* the variables validate and the functions it calls work on
evaluator_vars ==
    <<hypotheses, summary, cfg, df, baseline, evidence, validated, metrics>>

\* no directory reports, no schema fingerprint and no alerts file yet
no_files == [reports |-> FALSE]

\* no call of retry_with_backoff is under way
retry_idle ==
    [max_retries |-> 0, validation |-> FALSE, attempt |-> 0, delay |-> 0,
     calls |-> << >>, slept |-> << >>, value |-> "none", error |-> "none"]

Init ==
    /\ pc = "idle"
    /\ hypotheses = << >>
    /\ summary = << >>
    /\ cfg = Dict(<< >>)
    /\ df = NoDf
    /\ baseline = << >>
    /\ evidence = << >>
    /\ validated = << >>
    /\ metrics = << >>
    /\ retry = retry_idle
    /\ extra = << >>
    /\ files = no_files
    /\ runs = << >>

\* validate is called: lines 115-127
ValidateCall ==
    /\ pc = "idle"
    /\ \E d \in DataInputs :
        \E b \in {baseline_of(d)}, s \in SummaryInputs(d) :
            \E ev \in {IF DOMAIN b # {}
                        THEN evidence_from_summary_and_baseline(s, b) ELSE << >>} :
                \E hs \in Batches, c \in CfgInputs :
                    /\ hypotheses' = hs
                    /\ df' = d
                    /\ cfg' = c
                    /\ summary' = s
                    /\ baseline' = b
                    /\ evidence' = ev
    /\ validated' = << >>
    /\ metrics' = << >>
    /\ pc' = "loop"
    /\ UNCHANGED retry
    /\ UNCHANGED <<extra, files, runs>>

NextHyp == hypotheses[Len(validated) + 1]

\* an iteration that writes the adjusted confidence back into the hypothesis
\* it has scored and into the hypotheses that follow it
EvaluateOk_in_place ==
    /\ pc = "loop"
    /\ Len(validated) < Len(hypotheses)
    /\ ~evaluate_one_raises(NextHyp, cfg)
    /\ validated' = Append(validated, evaluate_one(NextHyp, evidence, cfg))
    /\ hypotheses' =
          [i \in DOMAIN hypotheses |->
              IF i > Len(validated) /\ hypotheses[i].isdict
              THEN Dict(SetKey(hypotheses[i].d, "initial_confidence",
                               evaluate_one(NextHyp, evidence, cfg).confidence))
              ELSE hypotheses[i]]
    /\ UNCHANGED <<pc, summary, cfg, df, baseline, evidence, metrics>>
    /\ UNCHANGED retry
    /\ UNCHANGED <<extra, files, runs>>

\* one iteration of the loop whose _evaluate_one returns (line 130)
EvaluateOk ==
    /\ pc = "loop"
    /\ Len(validated) < Len(hypotheses)
    /\ ~evaluate_one_raises(NextHyp, cfg)
    /\ validated' = Append(validated, evaluate_one(NextHyp, evidence, cfg))
    /\ UNCHANGED <<pc, hypotheses, summary, cfg, df, baseline, evidence, metrics>>
    /\ UNCHANGED retry
    /\ UNCHANGED <<extra, files, runs>>

\* one iteration whose _evaluate_one raises and whose handler appends the
\* degraded record (lines 131-142)
EvaluateDegraded ==
    /\ pc = "loop"
    /\ Len(validated) < Len(hypotheses)
    /\ evaluate_one_raises(NextHyp, cfg)
    /\ NextHyp.isdict
    /\ validated' = Append(validated, degraded(NextHyp))
    /\ UNCHANGED <<pc, hypotheses, summary, cfg, df, baseline, evidence, metrics>>
    /\ UNCHANGED retry
    /\ UNCHANGED <<extra, files, runs>>

\* one iteration whose handler raises in turn: h.get("id") on an h that has
\* no get (line 134); the exception leaves validate
EvaluateRaises ==
    /\ pc = "loop"
    /\ Len(validated) < Len(hypotheses)
    /\ evaluate_one_raises(NextHyp, cfg)
    /\ ~NextHyp.isdict
    /\ pc' = "raised"
    /\ UNCHANGED <<hypotheses, summary, cfg, df, baseline, evidence, validated, metrics>>
    /\ UNCHANGED retry
    /\ UNCHANGED <<extra, files, runs>>

\* the loop is over: metrics and return (lines 144-161)
ValidateReturn ==
    /\ pc = "loop"
    /\ Len(validated) = Len(hypotheses)
    /\ metrics' = metrics_of(validated, baseline)
    /\ pc' = "done"
    /\ UNCHANGED <<hypotheses, summary, cfg, df, baseline, evidence, validated>>
    /\ UNCHANGED retry
    /\ UNCHANGED <<extra, files, runs>>

\* evidence_from_summary_and_baseline is called on a summary and a baseline
EvidenceCall ==
    /\ pc = "idle"
    /\ \E s \in UnitSummaries, b \in BaselineInputs :
        /\ summary' = s
        /\ baseline' = b
        /\ evidence' = evidence_from_summary_and_baseline(s, b)
    /\ pc' = "evidence"
    /\ UNCHANGED <<hypotheses, cfg, df, validated, metrics>>
    /\ UNCHANGED retry
    /\ UNCHANGED <<extra, files, runs>>

\* an evidence record is handed over as it is
EvidenceGiven ==
    /\ pc = "idle"
    /\ evidence' \in EvidenceInputs
    /\ pc' = "evidence"
    /\ UNCHANGED <<hypotheses, summary, cfg, df, baseline, validated, metrics>>
    /\ UNCHANGED retry
    /\ UNCHANGED <<extra, files, runs>>

\* _evaluate_one is called on the evidence and returns
EvaluateOneCall ==
    /\ pc = "evidence"
    /\ \E c \in CfgInputs, v \in ConfInputs :
        /\ ~evaluate_one_raises(Hyp(1, v), c)
        /\ hypotheses' = <<Hyp(1, v)>>
        /\ cfg' = c
        /\ validated' = <<evaluate_one(Hyp(1, v), evidence, c)>>
    /\ pc' = "evaluated"
    /\ UNCHANGED <<summary, df, baseline, evidence, metrics>>
    /\ UNCHANGED retry
    /\ UNCHANGED <<extra, files, runs>>

\* _evaluate_one is called again with the same hypothesis and config, on the
\* evidence with another roas_delta_pct
EvaluateAgain ==
    /\ pc = "evaluated"
    /\ \E d \in EmittableRoasDeltas :
        validated' = Append(validated,
            evaluate_one(hypotheses[1], SetKey(evidence, "roas_delta_pct", d), cfg))
    /\ pc' = "compared"
    /\ UNCHANGED <<hypotheses, summary, cfg, df, baseline, evidence, metrics>>
    /\ UNCHANGED retry
    /\ UNCHANGED <<extra, files, runs>>

\* compute_global_baselines is called on a dataset and returns or raises
GlobalBaselinesCall ==
    /\ pc = "idle"
    /\ \E f \in FrameInputs, c \in ParamInputs :
        /\ df' = f
        /\ cfg' = c
        /\ baseline' = compute_global_baselines(f, c.d.window_days)
    /\ pc' = "baselines"
    /\ UNCHANGED <<hypotheses, summary, evidence, validated, metrics>>
    /\ UNCHANGED retry
    /\ UNCHANGED <<extra, files, runs>>

\* compute_global_ctr_baseline is called on a dataset and returns
CtrBaselineCall ==
    /\ pc = "idle"
    /\ \E f \in FrameInputs, c \in ParamInputs :
        /\ df' = f
        /\ cfg' = c
        /\ baseline' = ctr_baseline_of_df(f, c.d.window_days, c.d.min_days, c.d.z_score)
    /\ pc' = "ctr_baseline"
    /\ UNCHANGED <<hypotheses, summary, evidence, validated, metrics>>
    /\ UNCHANGED retry
    /\ UNCHANGED <<extra, files, runs>>

\* compute_roas_drop_threshold is called on a dataset and returns
RoasDropThresholdCall ==
    /\ pc = "idle"
    /\ \E f \in FrameInputs, c \in ParamInputs :
        /\ df' = f
        /\ cfg' = c
        /\ baseline' = roas_drop_threshold_of_df(f, c.d.window_days, c.d.min_days,
                                                 c.d.z_score, c.d.min_threshold)
    /\ pc' = "roas_threshold"
    /\ UNCHANGED <<hypotheses, summary, evidence, validated, metrics>>
    /\ UNCHANGED retry
    /\ UNCHANGED <<extra, files, runs>>

\* summarize_df is called on a dataset and returns
SummarizeCall ==
    /\ pc = "idle"
    /\ \E f \in FrameInputs :
        /\ df' = f
        /\ summary' = summarize_df_of(f)
    /\ pc' = "summarized"
    /\ UNCHANGED <<hypotheses, cfg, baseline, evidence, validated, metrics>>
    /\ UNCHANGED retry
    /\ UNCHANGED <<extra, files, runs>>

\* ---------------------------------------------- src/utils/llm_validation.py
\* what one call of func gives: a result that passes validation_func, one
\* that fails it, a string that fails it and whose repaired form passes it,
\* or an exception
FuncOutcomes == {"valid", "invalid", "repairable", "raises"}

initial_delay_default == 1
backoff_factor_default == 2

\* a loop that makes one attempt more than max_retries
retry_attempts_plus_one(r) == r.max_retries + 1

\* the number of iterations of the loop: range(max_retries) (line 232)
retry_attempts(r) == r.max_retries

\* the record after func was called with outcome o
Called(r, o) == [r EXCEPT !.calls = Append(@, o)]

\* time.sleep(delay); delay *= backoff_factor; next attempt
Slept(r) ==
    [r EXCEPT !.slept = Append(@, r.delay),
              !.delay = @ * backoff_factor_default,
              !.attempt = @ + 1]

\* retry_with_backoff is called (lines 198-230)
RetryCall ==
    /\ pc = "idle"
    /\ \E n \in 0..MaxRetries, v \in BOOLEAN :
        retry' = [retry_idle EXCEPT !.max_retries = n, !.validation = v,
                                    !.delay = initial_delay_default]
    /\ pc' = "retry"
    /\ UNCHANGED evaluator_vars
    /\ UNCHANGED <<extra, files, runs>>

\* an attempt whose result is returned: it passes validation, or there is
\* no validation_func (lines 235-249, 287-289)
RetryReturn ==
    /\ pc = "retry"
    /\ retry.attempt < retry_attempts(retry)
    /\ \E o \in FuncOutcomes \ {"raises"} :
        /\ ~retry.validation \/ o = "valid"
        /\ retry' = [Called(retry, o) EXCEPT !.value = o]
    /\ pc' = "retry_returned"
    /\ UNCHANGED evaluator_vars
    /\ UNCHANGED <<extra, files, runs>>

\* an attempt before the last whose string result fails validation and
\* whose repaired form passes it: the repaired form is returned (lines 263-276)
RetryRepair ==
    /\ pc = "retry"
    /\ retry.attempt < retry_attempts(retry) - 1
    /\ retry.validation
    /\ retry' = [Called(retry, "repairable") EXCEPT !.value = "repaired"]
    /\ pc' = "retry_returned"
    /\ UNCHANGED evaluator_vars
    /\ UNCHANGED <<extra, files, runs>>

\* an attempt before the last that fails validation without repair, or that
\* raises: sleep and try again (lines 278-281, 291-306)
RetrySleep ==
    /\ pc = "retry"
    /\ retry.attempt < retry_attempts(retry) - 1
    /\ \E o \in {"invalid", "raises"} :
        /\ o = "invalid" => retry.validation
        /\ retry' = Slept(Called(retry, o))
    /\ UNCHANGED <<pc, evaluator_vars>>
    /\ UNCHANGED <<extra, files, runs>>

\* the last attempt fails validation: LLMOutputValidationError is raised,
\* caught by the handler of the loop and raised again, or the last attempt
\* raises and its exception is raised again (lines 282-286, 291-308)
RetryRaise ==
    /\ pc = "retry"
    /\ retry.attempt < retry_attempts(retry)
    /\ retry.attempt >= retry_attempts(retry) - 1
    /\ \E o \in {"invalid", "repairable", "raises"} :
        /\ o # "raises" => retry.validation
        /\ retry' = [Called(retry, o) EXCEPT
                        !.error = IF o = "raises" THEN "func"
                                  ELSE "LLMOutputValidationError"]
    /\ pc' = "retry_raised"
    /\ UNCHANGED evaluator_vars
    /\ UNCHANGED <<extra, files, runs>>

\* the loop has ended without an attempt (max_retries <= 0): last_error is
\* None (lines 310-314)
RetryExhausted ==
    /\ pc = "retry"
    /\ retry.attempt >= retry_attempts(retry)
    /\ retry' = [retry EXCEPT !.error = "LLMOutputValidationError"]
    /\ pc' = "retry_raised"
    /\ UNCHANGED evaluator_vars
    /\ UNCHANGED <<extra, files, runs>>

\* ------------------------------------------ src/orchestrator/orchestrator.py
\* the positional parameters generate_hypotheses (insight_agent.py:224-227) and
\* generate_creatives (creative_generator.py:197-200) require, and the
\* positional arguments run passes to them (lines 99, 123)
generate_hypotheses_params == 3
generate_hypotheses_args == 2
generate_creatives_params == 3
generate_creatives_args == 2

\* a call with fewer positional arguments than required parameters raises
\* TypeError
CallRaisesTypeError(params, args) == args < params

\* the configuration load_config returns
RunConfigInputs == {Dict(<< >>), Dict([confidence_min |-> F(20000)])}

\* compute_dynamic_thresholds on a dataset df (thresholds.py:153-184)
compute_dynamic_thresholds_of_df(frame, window_days, min_days, ctr_z, roas_z) ==
    WithValue(<<ctr_baseline_of_df(frame, window_days, min_days, ctr_z),
                roas_drop_threshold_of_df(frame, window_days, min_days, roas_z,
                                          min_threshold_default)>>, LAMBDA p :
        [ctr_baseline |-> p[1],
         roas_baseline |-> p[2],
         ctr_low_threshold |-> p[1].ctr_low_threshold,
         roas_drop_threshold |-> p[2].roas_drop_threshold,
         rows_used |-> IF p[1].rows_used >= p[2].rows_used
                       THEN p[1].rows_used ELSE p[2].rows_used])

\* the thresholds run builds from dyn and the config (lines 90-95)
thresholds_of(dyn, c) ==
    Dict([ctr_low_threshold |-> dyn.ctr_low_threshold,
          roas_drop_threshold |-> dyn.roas_drop_threshold,
          confidence_min |-> Get(c.d, "confidence_min", F(50000))])

\* compute_extra_aggregates (retry_utils.py:4-12)
compute_extra_aggregates(frame) ==
    [rows |-> Len(frame.rows),
     total_spend |-> IF "spend" \in frame.cols
                     THEN SumSeq(Column(frame.rows, "spend")) ELSE 0]

\* apply_retry_logic (retry_utils.py:15-24): with fewer than 50 rows, a record
\* whose final_confidence (0 when the key is absent) is below 0.6 gets
\* final_confidence raised by 0.1, at most 0.6, and the note appended
apply_retry_logic(vs, e) ==
    [i \in DOMAIN vs |->
        WithValue(<<vs[i], Get(vs[i], "final_confidence", F(0))>>, LAMBDA p :
            IF Get(e, "rows", 0) < 50 /\ Lt(p[2], F(60000))
            THEN SetKey(SetKey(p[1], "final_confidence",
                               F(IF p[2].v + 10000 < 60000
                                 THEN p[2].v + 10000 ELSE 60000)),
                        "notes",
                        Append(Get(p[1], "notes", << >>),
                               "confidence_adjusted_for_small_sample"))
            ELSE p[1])]

\* the extra aggregates handed directly to apply_retry_logic: row counts on
\* both sides of 50, and a record without a row count
ExtraInputs ==
    {[rows |-> n, total_spend |-> 0] : n \in {0, 10, 49, 50, 200}} \cup {<< >>}

\* load_config and load_data (lines 29-61), for a dataset that loads
RunLoad ==
    /\ pc = "idle"
    /\ \E f \in FrameInputs, c \in RunConfigInputs :
        /\ df' = f
        /\ cfg' = c
    /\ pc' = "run_loaded"
    /\ UNCHANGED <<hypotheses, summary, baseline, evidence, validated, metrics, retry>>
    /\ UNCHANGED <<extra, files, runs>>

\* fingerprint_and_write opens reports/schema_fingerprint.json for writing
\* before run has created the directory reports (lines 64-70, 126): the
\* open raises when the directory does not exist
RunFingerprint ==
    /\ pc = "run_loaded"
    /\ \E reports_exists \in BOOLEAN :
        pc' = IF reports_exists THEN "run_fingerprinted" ELSE "run_raised"
    /\ UNCHANGED <<evaluator_vars, retry>>
    /\ UNCHANGED <<extra, files, runs>>

\* summarize (lines 72-75)
RunSummarize ==
    /\ pc = "run_fingerprinted"
    /\ summary' = summarize_df_of(df)
    /\ pc' = "run_summarized"
    /\ UNCHANGED <<hypotheses, cfg, df, baseline, evidence, validated, metrics, retry>>
    /\ UNCHANGED <<extra, files, runs>>

\* compute_dynamic_thresholds and the thresholds record (lines 77-95)
RunThresholds ==
    /\ pc = "run_summarized"
    /\ \E dyn \in {compute_dynamic_thresholds_of_df(df,
                        Get(cfg.d, "window_days", window_days_default),
                        Get(cfg.d, "min_days", min_days_default),
                        Get(cfg.d, "ctr_z", ctr_z_default),
                        Get(cfg.d, "roas_z", roas_z_default))} :
        /\ baseline' = dyn
        /\ cfg' = thresholds_of(dyn, cfg)
    /\ pc' = "run_thresholds"
    /\ UNCHANGED <<hypotheses, summary, df, evidence, validated, metrics, retry>>
    /\ UNCHANGED <<extra, files, runs>>

\* generate_hypotheses in its try block (lines 97-103): the TypeError of the
\* call is caught and hyps is the empty list
RunHypotheses ==
    /\ pc = "run_thresholds"
    /\ hypotheses' \in
          IF CallRaisesTypeError(generate_hypotheses_params, generate_hypotheses_args)
          THEN {<< >>} ELSE Batches
    /\ pc' = "run_hypotheses"
    /\ UNCHANGED <<summary, cfg, df, baseline, evidence, validated, metrics, retry>>
    /\ UNCHANGED <<extra, files, runs>>

\* validate(hyps, summary, thresholds) without a dataset, in its try block
\* (lines 105-112)
RunValidate ==
    /\ pc = "run_hypotheses"
    /\ IF \E i \in DOMAIN hypotheses : ~hypotheses[i].isdict
       THEN /\ validated' = << >>
            /\ metrics' = [num_hypotheses |-> 0, num_validated |-> 0,
                           validation_rate |-> F(0)]
       ELSE \E vs \in {[i \in DOMAIN hypotheses |->
                          IF evaluate_one_raises(hypotheses[i], cfg)
                          THEN degraded(hypotheses[i])
                          ELSE evaluate_one(hypotheses[i], << >>, cfg)]} :
                /\ validated' = vs
                /\ metrics' = metrics_of(vs, << >>)
    /\ pc' = "run_validated"
    /\ UNCHANGED <<hypotheses, summary, cfg, df, baseline, evidence, retry>>
    /\ UNCHANGED <<extra, files, runs>>

\* compute_extra_aggregates and apply_retry_logic (lines 114-119)
RunExtras ==
    /\ pc = "run_validated"
    /\ \E e \in {compute_extra_aggregates(df)} :
        /\ extra' = e
        /\ validated' = apply_retry_logic(validated, e)
    /\ pc' = "run_extras"
    /\ UNCHANGED <<hypotheses, summary, cfg, df, baseline, evidence, metrics, retry>>
    /\ UNCHANGED <<files, runs>>

\* apply_retry_logic is called on the Verdicts validate has returned
ApplyRetryCall ==
    /\ pc = "done"
    /\ \E e \in ExtraInputs :
        /\ extra' = e
        /\ validated' = apply_retry_logic(validated, e)
    /\ pc' = "retry_applied"
    /\ UNCHANGED <<hypotheses, summary, cfg, df, baseline, evidence, metrics, retry>>
    /\ UNCHANGED <<files, runs>>

\* find_low_ctr and generate_creatives (lines 120-122): the call
\* generate_creatives(low, df) raises TypeError, which nothing in run catches;
\* otherwise the reports are written and run returns (lines 124-182)
RunCreatives ==
    /\ pc = "run_extras"
    /\ pc' = IF CallRaisesTypeError(generate_creatives_params, generate_creatives_args)
             THEN "run_raised" ELSE "run_returned"
    /\ UNCHANGED <<evaluator_vars, retry>>
    /\ UNCHANGED <<extra, files, runs>>

\* _severity_from_delta is called on a delta and returns
SeverityCall ==
    /\ pc = "idle"
    /\ \E d \in SeverityInputs :
        evidence' = [delta |-> d, severity |-> severity_from_delta(d)]
    /\ pc' = "severity"
    /\ UNCHANGED <<hypotheses, summary, cfg, df, baseline, validated, metrics, retry>>
    /\ UNCHANGED <<extra, files, runs>>

\* the evidence builder is called on the summary summarize_df has returned
EvidenceOfSummary ==
    /\ pc = "summarized"
    /\ \E b \in BaselineInputs :
        /\ baseline' = b
        /\ evidence' = evidence_from_summary_and_baseline(summary, b)
    /\ pc' = "summary_evidence"
    /\ UNCHANGED <<hypotheses, summary, cfg, df, validated, metrics, retry>>
    /\ UNCHANGED <<extra, files, runs>>

\* alert_rule_roas_drop is called on metrics and thresholds and returns
AlertRuleCall ==
    /\ pc = "idle"
    /\ \E m \in AlertMetricsInputs, th \in AlertThresholdInputs :
        /\ metrics' = m
        /\ cfg' = th
        /\ evidence' = alert_rule_roas_drop(m, th)
    /\ pc' = "alert_rule"
    /\ UNCHANGED <<hypotheses, summary, df, baseline, validated, retry>>
    /\ UNCHANGED <<extra, files, runs>>

\* the caller has taken the result (or the exception) of the last call
Reset ==
    /\ pc \in {"done", "raised", "evaluated", "compared",
               "baselines", "ctr_baseline", "roas_threshold", "summarized",
               "retry_returned", "retry_raised", "run_raised", "run_returned",
               "alert_rule", "severity", "summary_evidence", "retry_applied"}
    /\ pc' = "idle"
    /\ hypotheses' = << >>
    /\ summary' = << >>
    /\ cfg' = Dict(<< >>)
    /\ df' = NoDf
    /\ baseline' = << >>
    /\ evidence' = << >>
    /\ validated' = << >>
    /\ metrics' = << >>
    /\ retry' = retry_idle
    /\ extra' = << >>
    /\ UNCHANGED <<files, runs>>

Next ==
    \/ ValidateCall
    \/ EvaluateOk
    \/ EvaluateDegraded
    \/ EvaluateRaises
    \/ ValidateReturn
    \/ EvidenceCall
    \/ EvidenceGiven
    \/ EvaluateOneCall
    \/ EvaluateAgain
    \/ GlobalBaselinesCall
    \/ CtrBaselineCall
    \/ RoasDropThresholdCall
    \/ SummarizeCall
    \/ RetryCall
    \/ RetryReturn
    \/ RetryRepair
    \/ RetrySleep
    \/ RetryRaise
    \/ RetryExhausted
    \/ RunLoad
    \/ RunFingerprint
    \/ RunSummarize
    \/ RunThresholds
    \/ RunHypotheses
    \/ RunValidate
    \/ RunExtras
    \/ RunCreatives
    \/ AlertRuleCall
    \/ SeverityCall
    \/ EvidenceOfSummary
    \/ ApplyRetryCall
    \/ Reset

Spec == Init /\ [][Next]_vars

\* ------------------------------------------------- the runs and their files
\* Several runs of orchestrator.run, each its own process, work on the same
\* files: reports/schema_fingerprint.json and the alerts file. A run is
\* followed through its steps on these files (orchestrator.py:54-70, 123);
\* the data pipeline of a run is the part modelled by Spec.

\* the column types of the datasets the runs load: the full schema, the same
\* with spend read as float, and one without the campaign column
dtype_of(c) ==
    IF c = "date" THEN "datetime64[ns]" ELSE IF c = "campaign" THEN "object" ELSE "int64"

SchemaInputs ==
    {[c \in AllColumns |-> dtype_of(c)],
     [c \in AllColumns |-> IF c = "spend" THEN "float64" ELSE dtype_of(c)],
     [c \in AllColumns \ {"campaign"} |-> dtype_of(c)]}

\* what is no fingerprint record: a file that does not exist, and the path
\* string fingerprint_and_write returns
NoFile == [isdict |-> FALSE, v |-> "no file"]
PathString == [isdict |-> FALSE, v |-> "reports/schema_fingerprint.json"]

\* schema_fingerprint_from_df (schema.py:82-97); the hash, a function of the
\* columns and dtypes alone, is left out
schema_fingerprint_from_df(schema) ==
    [isdict |-> TRUE, columns |-> DOMAIN schema, dtypes |-> schema, version |-> 1]

\* read_schema_fingerprint (schema.py:115-123) on the content of the file:
\* None when the file is not there
read_schema_fingerprint(content) ==
    IF content = NoFile THEN [isdict |-> FALSE, v |-> "None"] ELSE content

\* detect_schema_drift (schema.py:126-158): an argument that is no dict
\* counts as one without columns and dtypes (lines 140-141, 147-148)
detect_schema_drift(old_fp, new_fp) ==
    LET old_cols == IF old_fp.isdict THEN old_fp.columns ELSE {}
        new_cols == IF new_fp.isdict THEN new_fp.columns ELSE {}
        old_dtypes == IF old_fp.isdict THEN old_fp.dtypes ELSE << >>
        new_dtypes == IF new_fp.isdict THEN new_fp.dtypes ELSE << >>
        added == new_cols \ old_cols
        removed == old_cols \ new_cols
        dtype_changes ==
            {c \in old_cols \cap new_cols :
                Get(old_dtypes, c, "unknown") # Get(new_dtypes, c, "unknown")}
    IN  [drift |-> added # {} \/ removed # {} \/ dtype_changes # {},
         diff |-> [added |-> added, removed |-> removed,
                   dtype_changes |-> dtype_changes]]

\* the variables of the data pipeline, which the steps on the files leave alone
pipeline_vars ==
    <<pc, hypotheses, summary, cfg, df, baseline, evidence, validated, metrics,
      retry, extra>>

\* the locals of a run: its position, the schema of its dataset, the content
\* of the fingerprint file when the run came to write it, the drift report,
\* the alert it is writing and the list write_alert has read; and whether
\* every earlier run had ended when this one started
NewRun(at, schema, rec) ==
    [at |-> at, schema |-> schema, previous |-> NoFile, drift |-> FALSE,
     rec |-> rec, alerts |-> << >>,
     after_the_others |-> \A j \in DOMAIN runs : runs[j].at = "ended"]

\* the alert of run k with this reason (orchestrator.py:59, 69); level
\* "none" for a run that has no alert to write
Alert(level, reason, k) == [level |-> level, reason |-> reason, run |-> k]

InitRuns ==
    /\ pc = "idle"
    /\ hypotheses = << >>
    /\ summary = << >>
    /\ cfg = Dict(<< >>)
    /\ df = NoDf
    /\ baseline = << >>
    /\ evidence = << >>
    /\ validated = << >>
    /\ metrics = << >>
    /\ retry = retry_idle
    /\ extra = << >>
    /\ \E reports \in BOOLEAN :
        files = [reports |-> reports, fingerprint |-> NoFile, alerts |-> << >>,
                 written |-> << >>]
    /\ runs = << >>

\* a run starts and load_data returns a dataset (lines 28-52)
RunStarts ==
    /\ Len(runs) < MaxRuns
    /\ \E s \in SchemaInputs : runs' = Append(runs, NewRun("loaded", s, Alert("none", "none", 0)))
    /\ UNCHANGED <<files, pipeline_vars>>

\* a run starts and load_data raises: run calls write_alert with the
\* critical alert and raises (lines 53-61)
RunLoadFails ==
    /\ Len(runs) < MaxRuns
    /\ runs' = Append(runs, NewRun("alerting", << >>,
                                   Alert("critical", "data_load_failed", Len(runs) + 1)))
    /\ UNCHANGED <<files, pipeline_vars>>

\* fingerprint_and_write (line 64, schema.py:100-112): the fingerprint of the
\* dataset replaces the content of the file; the open raises without the
\* directory reports, and run ends with that exception
FingerprintWrite(k) ==
    /\ runs[k].at = "loaded"
    /\ IF files.reports
       THEN /\ files' = [files EXCEPT
                            !.fingerprint = schema_fingerprint_from_df(runs[k].schema)]
            /\ runs' = [runs EXCEPT ![k].at = "fingerprinted",
                                    ![k].previous = files.fingerprint]
       ELSE /\ runs' = [runs EXCEPT ![k].at = "ended"]
            /\ UNCHANGED files
    /\ UNCHANGED pipeline_vars

\* read_schema_fingerprint and detect_schema_drift (lines 65-70): current_fp
\* is the path fingerprint_and_write has returned; on drift run calls
\* write_alert with the warning, and without drift it goes on to the call of
\* generate_creatives that raises (line 123)
DriftCheck(k) ==
    /\ runs[k].at = "fingerprinted"
    /\ \E d \in {detect_schema_drift(PathString,
                                     read_schema_fingerprint(files.fingerprint))} :
        runs' = [runs EXCEPT ![k].drift = d.drift,
                             ![k].at = IF d.drift THEN "alerting" ELSE "ended",
                             ![k].rec = IF d.drift
                                        THEN Alert("warning", "schema_drift", k)
                                        ELSE Alert("none", "none", 0)]
    /\ UNCHANGED <<files, pipeline_vars>>

\* write_alert reads the list of alerts from the file, the empty list when
\* the file is not there (alerts.py:27-38)
AlertRead(k) ==
    /\ runs[k].at = "alerting"
    /\ runs' = [runs EXCEPT ![k].alerts = files.alerts,
                            ![k].at = "alert_read"]
    /\ UNCHANGED <<files, pipeline_vars>>

\* write_alert appends its record to the list it has read and writes the
\* list to the file (alerts.py:40-50); then run raises: the exception of
\* load_data (line 61) or the TypeError of generate_creatives (line 123)
AlertWrite(k) ==
    /\ runs[k].at = "alert_read"
    /\ files' = [files EXCEPT !.alerts = Append(runs[k].alerts, runs[k].rec),
                              !.written = Append(@, runs[k].rec)]
    /\ runs' = [runs EXCEPT ![k].at = "ended"]
    /\ UNCHANGED pipeline_vars

NextRuns ==
    \/ RunStarts
    \/ RunLoadFails
    \/ \E k \in DOMAIN runs : FingerprintWrite(k)
    \/ \E k \in DOMAIN runs : DriftCheck(k)
    \/ \E k \in DOMAIN runs : AlertRead(k)
    \/ \E k \in DOMAIN runs : AlertWrite(k)

SpecRuns == InitRuns /\ [][NextRuns]_vars

\* ------------------------------------------------------------------ claims
\* the hypothesis the i-th record of validated was scored for
HypOf(i) == IF pc = "compared" THEN hypotheses[1] ELSE hypotheses[i]

IsDegraded(v) == "error" \in DOMAIN v

InValidate == pc \in {"loop", "done", "raised"}

\* the initial confidence clamped to [0,1], 0.0 when it is no number
ClampedInitial(h) ==
    LET x == Get(h.d, "initial_confidence", F(0))
    IN  CASE x.t = "num" -> (IF x.v > Scale THEN Scale ELSE IF x.v < 0 THEN 0 ELSE x.v)
          [] x.t = "inf" -> Scale
          [] OTHER -> 0

\* the boost the spec gives an impact
BoostOf(impact) ==
    CASE impact \in {"medium", "high", "critical"} -> 25000
      [] impact = "low" -> 10000
      [] OTHER -> 0

\* min(1, c + boost)
Boosted(h, impact) ==
    IF ClampedInitial(h) + BoostOf(impact) > Scale THEN Scale
    ELSE ClampedInitial(h) + BoostOf(impact)

\* the confidence_min a config supplies: 0.3 when it supplies none, 0.0 when
\* what it supplies is no number
SuppliedMin(c) ==
    IF ~c.isdict \/ "confidence_min" \notin DOMAIN c.d THEN F(30000)
    ELSE IF c.d.confidence_min.t \in {"num", "inf", "ninf", "nan"} THEN c.d.confidence_min
    ELSE F(0)

HasNumericMin(c) ==
    ~c.isdict \/ "confidence_min" \notin DOMAIN c.d \/ c.d.confidence_min.t = "num"

\* C1: the confidence of every emitted Verdict is a finite number in [0,1],
\* whatever the initial_confidence, the evidence and the config.
C1_ConfidenceInUnitInterval ==
    \A i \in DOMAIN validated :
        /\ validated[i].confidence.t = "num"
        /\ validated[i].confidence.v >= 0
        /\ validated[i].confidence.v <= Scale

\* validate has returned Verdicts for initial confidences 5.0 and -0.5
C1_Witness ==
    /\ pc = "done"
    /\ \E i, j \in DOMAIN validated :
        /\ Get(hypotheses[i].d, "initial_confidence", F(0)) = F(5 * Scale)
        /\ validated[i].confidence = F(Scale)
        /\ Get(hypotheses[j].d, "initial_confidence", F(0)) = F(-50000)
        /\ validated[j].confidence.v < Scale

\* C2: validate returns one Verdict per input hypothesis, in input order,
\* and scoring one hypothesis never aborts the batch.
C2_OneVerdictPerHypothesis ==
    /\ pc # "raised"
    /\ pc = "done" =>
        /\ Len(validated) = Len(hypotheses)
        /\ \A i \in DOMAIN validated :
            validated[i].id = Get(hypotheses[i].d, "id", None)

EvidenceNumbers(e) ==
    {Get(e, k, F(0)) : k \in {"ctr_delta_pct", "roas_delta_pct", "last_ctr",
                              "ctr_baseline", "last_roas", "roas_baseline"}}

\* C3: no numeric field of the Evidence built inside validate, or of the
\* evidence embedded in a Verdict of validate, is NaN or infinite.
C3_EvidenceFinite ==
    InValidate =>
        /\ \A x \in EvidenceNumbers(evidence) : IsFinite(x)
        /\ \A i \in DOMAIN validated :
            \A x \in EvidenceNumbers(validated[i].evidence) : IsFinite(x)

\* C4: a CTR delta or a ROAS delta below -0.40 (the -Infinity sentinel
\* included) is classified critical, so the impact of the Verdict is critical.
C4_BelowMinus40IsCritical ==
    pc = "evaluated" =>
        LET e == validated[1].evidence
        IN  (Lt(e.ctr_delta_pct, F(-40000)) \/ Lt(e.roas_delta_pct, F(-40000)))
                => validated[1].impact = "critical"

\* C5: of two Evidence records that differ only in roas_delta_pct, the one
\* with the smaller roas_delta_pct yields an impact at least as severe.
C5_ImpactMonotoneInRoasDelta ==
    pc = "compared" =>
        LET a == validated[1]
            b == validated[2]
        IN  /\ Lt(a.evidence.roas_delta_pct, b.evidence.roas_delta_pct)
                => severity_rank[a.impact] >= severity_rank[b.impact]
            /\ Lt(b.evidence.roas_delta_pct, a.evidence.roas_delta_pct)
                => severity_rank[b.impact] >= severity_rank[a.impact]

\* C6 (as stated): passed = (confidence >= confidence_min) for the confidence
\* emitted in the same Verdict.
C6_PassedIffEmittedConfidence ==
    \A i \in DOMAIN validated :
        HasNumericMin(cfg) =>
            validated[i].passed = (validated[i].confidence.v >= SuppliedMin(cfg).v)

\* C6 (amended): passed = (adjusted >= confidence_min) for the adjusted
\* confidence before it is rounded to four decimals; confidence_min is the
\* number the config supplies, 0.3 when it supplies none and 0.0 when it
\* supplies something that is no number; a degraded Verdict has passed = false.
C6_PassedIffAdjusted ==
    \A i \in DOMAIN validated :
        IF IsDegraded(validated[i]) THEN validated[i].passed = FALSE
        ELSE validated[i].passed =
                Ge(F(Boosted(HypOf(i), validated[i].impact)), SuppliedMin(cfg))

\* validate has returned a batch with a passed and a failed regular Verdict
C6_Witness ==
    /\ pc = "done"
    /\ \E i, j \in DOMAIN validated :
        /\ validated[i].passed
        /\ ~validated[j].passed
        /\ ~IsDegraded(validated[j])
        /\ validated[j].confidence.v > 0

\* C7 (as stated): the confidence of a Verdict is min(1, c + 0.25) for an
\* impact of medium, high or critical, min(1, c + 0.10) for low, c for none.
C7_ConfidenceIsBoosted ==
    \A i \in DOMAIN validated :
        ~IsDegraded(validated[i]) =>
            validated[i].confidence.v = Boosted(HypOf(i), validated[i].impact)

\* C7 (amended): the confidence of a Verdict that was scored without error is
\* that value rounded to four decimals; a degraded Verdict has impact none
\* and confidence 0.0.
C7_ConfidenceIsBoostedRounded ==
    \A i \in DOMAIN validated :
        IF IsDegraded(validated[i])
        THEN validated[i].impact = "none" /\ validated[i].confidence.v = 0
        ELSE /\ validated[i].confidence.v % 10 = 0
             /\ 2 * Abs(validated[i].confidence.v
                        - Boosted(HypOf(i), validated[i].impact)) <= 10

\* a low impact has raised 0.04 to 0.14, and a higher one 0.95 to 1.0
C7_Witness ==
    /\ pc = "compared"
    /\ \E i, j \in DOMAIN validated :
        /\ validated[i].impact = "low"
        /\ ClampedInitial(HypOf(i)) = 4000
        /\ validated[i].confidence.v = 14000
        /\ validated[j].impact \in {"medium", "high", "critical"}

HasStringConfidence(h) ==
    h.isdict /\ Get(h.d, "initial_confidence", F(0)) = Str

PositiveMin(c) ==
    c.isdict /\ Get(c.d, "confidence_min", F(30000)).t = "num"
             /\ Get(c.d, "confidence_min", F(30000)).v > 0

\* C9 (as stated): in a batch of validate, a hypothesis whose
\* initial_confidence is a non-numeric string gets confidence 0.0 and
\* passed = false, for every Evidence and every confidence_min > 0.
C9_StringConfidenceFails ==
    InValidate /\ PositiveMin(cfg) =>
        \A i \in DOMAIN validated :
            HasStringConfidence(hypotheses[i]) =>
                validated[i].confidence.v = 0 /\ ~validated[i].passed

\* C9 (amended): such a hypothesis is scored from the base confidence 0.0:
\* its confidence is the boost of the impact alone (0.0 for none, 0.10 for
\* low, 0.25 for medium, high and critical) and passed tells whether that
\* boost reaches confidence_min, so that confidence = 0.0 and passed = false
\* hold when the impact is none; the other hypotheses of the batch get a
\* Verdict each.
C9_StringConfidenceScoredFromZero ==
    InValidate /\ PositiveMin(cfg) =>
        \A i \in DOMAIN validated :
            HasStringConfidence(hypotheses[i]) =>
                /\ validated[i].confidence.v = BoostOf(validated[i].impact)
                /\ validated[i].passed =
                      (BoostOf(validated[i].impact) >= SuppliedMin(cfg).v)
                /\ validated[i].impact = "none" =>
                      validated[i].confidence.v = 0 /\ ~validated[i].passed
                /\ pc = "done" => Len(validated) = Len(hypotheses)

\* validate has returned two Verdicts, the one of the string confidence
\* boosted to 0.25 and passed, the other one scored from its own confidence
C9_Witness ==
    /\ pc = "done"
    /\ Len(validated) = 2
    /\ PositiveMin(cfg)
    /\ HasStringConfidence(hypotheses[1])
    /\ validated[1].confidence.v = 25000
    /\ validated[1].passed
    /\ validated[2].confidence.v = Scale

\* a dataset of at least min_days days whose ROAS is constant and positive
\* except on the last day, where it is a tenth of it
IsRoasCollapse(d) ==
    /\ d.isdf
    /\ Len(d.rows) >= min_days_default
    /\ \A i \in DOMAIN d.rows :
        /\ d.rows[i].spend > 0
        /\ d.rows[i].date = i
        /\ d.rows[i].revenue =
              IF i = Len(d.rows) THEN d.rows[1].revenue \div 10 ELSE d.rows[1].revenue
    /\ d.rows[1].revenue > 0

\* C10: on such a dataset the Evidence has the historical mean ROAS as a
\* nonzero roas_baseline, a roas_delta_pct of about -0.9, the impact is
\* critical, an initial confidence >= 0.3 passes at confidence_min = 0.3 and
\* the metrics report the same roas_baseline.
C10_RoasCollapseScenario ==
    (pc = "done" /\ IsRoasCollapse(df) /\ DOMAIN summary # {}) =>
        /\ evidence.roas_baseline.t = "num"
        /\ evidence.roas_baseline.v # 0
        /\ evidence.roas_delta_pct.t = "num"
        /\ evidence.roas_delta_pct.v < -80000
        /\ evidence.roas_delta_pct.v > -Scale
        /\ metrics.roas_baseline = evidence.roas_baseline
        /\ \A i \in DOMAIN validated :
            ~IsDegraded(validated[i]) => validated[i].impact = "critical"

\* validate was called without a dataset or with a dataset of no rows
NoData == ~df.isdf \/ df.rows = << >>

\* C11: on an empty dataset, and without a dataset, validate yields for every
\* hypothesis a Verdict with passed = false and with the clamped
\* initial_confidence (as emitted, to four decimals) as its confidence.
C11_NoDataNeverPasses ==
    (InValidate /\ NoData) =>
        \A i \in DOMAIN validated :
            ~IsDegraded(validated[i]) =>
                /\ validated[i].passed = FALSE
                /\ validated[i].confidence = Round4(F(ClampedInitial(hypotheses[i])))

\* C12: after validate has returned, num_hypotheses is the number of input
\* hypotheses and of Verdicts, num_passed the number of Verdicts with
\* passed = true, and validation_rate = num_passed / max(1, num_hypotheses),
\* a number in [0,1] that is 0.0 for an empty batch.
C12_MetricsCountVerdicts ==
    pc = "done" =>
        LET n == Len(validated)
            p == Cardinality({i \in DOMAIN validated : validated[i].passed})
            m == IF n > 1 THEN n ELSE 1
        IN  /\ metrics.num_hypotheses = Len(hypotheses)
            /\ metrics.num_hypotheses = n
            /\ metrics.num_passed = p
            /\ metrics.validation_rate.t = "num"
            /\ Abs(metrics.validation_rate.v * m - p * Scale) <= m
            /\ metrics.validation_rate.v >= 0
            /\ metrics.validation_rate.v <= Scale
            /\ n = 0 => metrics.validation_rate.v = 0

\* validate has returned two Verdicts of which one passed: the rate is 0.5
C12_Witness ==
    /\ pc = "done"
    /\ metrics.num_hypotheses = 2
    /\ metrics.num_passed = 1
    /\ metrics.validation_rate.v = 50000

\* the inputs of the evaluations of a call: what a run may read, not write
EvaluatorInputs == <<hypotheses, summary, cfg, df, baseline, evidence>>

\* evaluations on the same hypothesis, Evidence and config have returned the
\* same Verdict: within a batch of validate, and in two calls of _evaluate_one
SameInputsSameVerdict ==
    /\ InValidate =>
        \A i, j \in DOMAIN validated :
            hypotheses[i] = hypotheses[j] => validated[i] = validated[j]
    /\ (pc = "compared"
        /\ validated[2].evidence.roas_delta_pct = Get(evidence, "roas_delta_pct", F(0)))
            => validated[1] = validated[2]

StatsCalled == pc \in {"baselines", "ctr_baseline", "roas_threshold"}

\* the columns the function that was called aggregates
NeededColumns ==
    CASE pc = "baselines" -> {"date", "impressions", "clicks", "revenue", "spend"}
      [] pc = "ctr_baseline" -> {"date", "impressions", "clicks"}
      [] pc = "roas_threshold" -> {"date", "revenue", "spend"}
      [] OTHER -> {}

\* the days of the dataset that are valid for the function that was called:
\* their dates, CTR and ROAS (0 where the function does not compute it)
ValidDays ==
    IF ~(NeededColumns \subseteq df.cols) THEN << >>
    ELSE LET daily == SelectSeq(daily_groups(df.rows), LAMBDA g :
                        /\ pc \in {"baselines", "ctr_baseline"} => g.impressions # 0
                        /\ pc \in {"baselines", "roas_threshold"} => g.spend # 0)
         IN  [i \in DOMAIN daily |->
                [date |-> daily[i].date,
                 ctr |-> IF daily[i].impressions # 0
                         THEN RDiv(daily[i].clicks, daily[i].impressions) ELSE 0,
                 roas |-> IF daily[i].spend # 0
                          THEN RDiv(daily[i].revenue, daily[i].spend) ELSE 0,
                 spend |-> daily[i].spend,
                 revenue |-> daily[i].revenue,
                 impressions |-> daily[i].impressions,
                 clicks |-> daily[i].clicks]]

\* the keys of the record each function documents
DocumentedKeys ==
    CASE pc = "baselines" ->
            {"ctr_baseline", "ctr_pctile_10", "ctr_pctile_90", "roas_baseline",
             "roas_pctile_10", "roas_pctile_90", "rows_used"}
      [] pc = "ctr_baseline" ->
            {"baseline_ctr", "ctr_std", "ctr_low_threshold", "rows_used"}
      [] pc = "roas_threshold" ->
            {"median_drop", "drop_std", "roas_drop_threshold", "rows_used"}
      [] OTHER -> {}

\* the baseline fields of a record, the thresholds excluded
BaselineFields ==
    DocumentedKeys \ {"rows_used", "ctr_low_threshold", "roas_drop_threshold"}

\* C14: compute_global_baselines, compute_global_ctr_baseline,
\* compute_roas_drop_threshold and summarize_df never raise on a defective
\* dataset: each returns a record with every key, and without a valid daily
\* point every numeric baseline field is 0.0 and rows_used is 0.
C14_StatsNeverRaise ==
    /\ StatsCalled =>
        /\ "raised" \notin DOMAIN baseline
        /\ DocumentedKeys \subseteq DOMAIN baseline
        /\ ValidDays = << >> =>
            /\ baseline.rows_used = 0
            /\ \A k \in BaselineFields : baseline[k] = F(0)
    /\ pc = "summarized" =>
        /\ {"global", "by_campaign"} \subseteq DOMAIN summary
        /\ {"total_spend", "total_revenue", "total_impressions", "total_clicks",
            "daily_roas"} \subseteq DOMAIN summary.global

\* total num / total den over the valid days, 0.0 when the total of den is 0
RatioOfSums(num, den) ==
    LET n == SumSeq(Column(ValidDays, num))
        d == SumSeq(Column(ValidDays, den))
    IN  IF d > 0 THEN F(RDiv(n, d)) ELSE F(0)

\* C15: with fewer than min_days valid days, ctr_baseline and roas_baseline
\* of compute_global_baselines and baseline_ctr of
\* compute_global_ctr_baseline are the ratio of the sums over the available
\* days, and rows_used is below min_days.
C15_SmallSampleUsesRatioOfSums ==
    (StatsCalled /\ "raised" \notin DOMAIN baseline
     /\ ValidDays # << >> /\ Len(ValidDays) < cfg.d.min_days) =>
        /\ pc = "baselines" =>
            /\ baseline.ctr_baseline = RatioOfSums("clicks", "impressions")
            /\ baseline.roas_baseline = RatioOfSums("revenue", "spend")
            /\ baseline.rows_used < cfg.d.min_days
        /\ pc = "ctr_baseline" =>
            /\ baseline.baseline_ctr = RatioOfSums("clicks", "impressions")
            /\ baseline.rows_used < cfg.d.min_days

\* the valid days within the trailing window_days calendar days that end at
\* the last date present
DaysInWindow ==
    SelectSeq(ValidDays, LAMBDA g :
        g.date > ValidDays[Len(ValidDays)].date - cfg.d.window_days)

\* the rows of the dataset whose date lies in that window
RowsInWindow ==
    SelectSeq(df.rows, LAMBDA r :
        r.date > ValidDays[Len(ValidDays)].date - cfg.d.window_days)

\* C16: with at least min_days valid days, only the days within the trailing
\* window_days calendar days contribute to the CTR and ROAS baselines and
\* percentiles, to the CTR standard deviation and to the ROAS drop series.
C16_OnlyWindowContributes ==
    (StatsCalled /\ "raised" \notin DOMAIN baseline
     /\ ValidDays # << >> /\ Len(ValidDays) >= cfg.d.min_days) =>
        /\ pc = "baselines" =>
            /\ baseline.ctr_baseline.v = Mean(Column(DaysInWindow, "ctr"))
            /\ baseline.roas_baseline.v = Mean(Column(DaysInWindow, "roas"))
            /\ baseline.ctr_pctile_10.v = Percentile(Column(DaysInWindow, "ctr"), 10)
            /\ baseline.roas_pctile_90.v = Percentile(Column(DaysInWindow, "roas"), 90)
        /\ pc = "ctr_baseline" =>
            /\ baseline.baseline_ctr.v = Mean(Column(DaysInWindow, "ctr"))
            /\ baseline.ctr_std.v =
                  IF Len(DaysInWindow) > 1 THEN StdDev0(Column(DaysInWindow, "ctr")) ELSE 0
        /\ pc = "roas_threshold" =>
            LET w == compute_roas_drop_threshold(RowsInWindow, cfg.d.window_days, 0,
                                                 cfg.d.z_score, cfg.d.min_threshold)
            IN  /\ baseline.median_drop = w.median_drop
                /\ baseline.drop_std = w.drop_std
                /\ baseline.roas_drop_threshold = w.roas_drop_threshold

\* C17: ctr_low_threshold of compute_global_ctr_baseline is strictly positive
\* and at least max(1e-6, 0.3 * baseline_ctr); with at least min_days valid
\* days it is max(baseline_ctr - z * std, max(1e-6, 0.3 * baseline_ctr)).
C17_CtrThresholdFloored ==
    pc = "ctr_baseline" =>
        LET b == baseline.baseline_ctr.v
            floor == IF 3 * b > 1 THEN 3 * b ELSE 1
            raw == (b - FMul(baseline.ctr_std.v, cfg.d.z_score)) * 10
        IN  /\ baseline.ctr_low_threshold.t = "micro"
            /\ baseline.ctr_low_threshold.v >= 1
            /\ baseline.ctr_low_threshold.v >= floor
            /\ (ValidDays # << >> /\ Len(ValidDays) >= cfg.d.min_days) =>
                  baseline.ctr_low_threshold.v = (IF raw >= floor THEN raw ELSE floor)

\* a call on at least min_days valid days whose baseline - z * std is
\* negative: the threshold is 0.3 * baseline_ctr
C17_Witness ==
    /\ pc = "ctr_baseline"
    /\ Len(ValidDays) >= cfg.d.min_days
    /\ cfg.d.z_score > 0
    /\ FMul(baseline.ctr_std.v, cfg.d.z_score) > baseline.baseline_ctr.v
    /\ baseline.ctr_low_threshold.v = 3 * baseline.baseline_ctr.v
    /\ baseline.baseline_ctr.v > 0

\* the drops (prev - roas) / prev of the valid days over their predecessor,
\* where the predecessor's ROAS is not 0 and the ROAS has fallen
DropsOfValidDays ==
    LET r == Column(ValidDays, "roas")
        idx == {i \in DOMAIN r : i > 1 /\ r[i - 1] > 0 /\ r[i] < r[i - 1]}
        nth(k) == CHOOSE i \in idx : Cardinality({j \in idx : j < i}) = k - 1
    IN  [k \in 1..Cardinality(idx) |-> RDiv(r[nth(k) - 1] - r[nth(k)], r[nth(k) - 1])]

\* C18: roas_drop_threshold is never below min_threshold: it is min_threshold
\* with fewer than min_days valid days or without a positive drop, and
\* otherwise max(min_threshold, median + z * std) over the positive drops,
\* a day after a day of ROAS 0 contributing none.
C18_RoasThresholdFloored ==
    pc = "roas_threshold" =>
        LET t == baseline.roas_drop_threshold.v
            m == cfg.d.min_threshold
            drops == SelectSeq(DropsOfValidDays, LAMBDA x : x > 0)
        IN  /\ baseline.roas_drop_threshold.t = "num"
            /\ t >= m
            /\ IF Len(ValidDays) < cfg.d.min_days \/ drops = << >>
               THEN t = m
               ELSE LET x == Median(drops)
                             + FMul(IF Len(drops) > 1 THEN StdDev0(drops) ELSE 0,
                                    cfg.d.z_score)
                    IN  t = (IF x >= m THEN x ELSE m)

\* a call on a series with a day of ROAS 0, rises and three drops: the
\* threshold is median + z * std, above the floor
C18_Witness ==
    /\ pc = "roas_threshold"
    /\ Len(ValidDays) >= cfg.d.min_days
    /\ \E i \in DOMAIN ValidDays : ValidDays[i].roas = 0 /\ i < Len(ValidDays)
    /\ Len(DropsOfValidDays) = 3
    /\ cfg.d.z_score > 0
    /\ baseline.drop_std.v > 0
    /\ baseline.roas_drop_threshold.v > baseline.median_drop.v
    /\ baseline.roas_drop_threshold.v > cfg.d.min_threshold

\* C19: for any dataset that loads, run executes its stages in order to
\* completion without raising and returns the validated Verdicts and the
\* creative bundles: in particular, once the extra aggregates are done, the
\* creatives stage completes and run returns.
C19_RunReturns ==
    [][pc = "run_extras" => pc' = "run_returned"]_vars

\* a call of retry_with_backoff has ended
RetryEnded == pc \in {"retry_returned", "retry_raised"}

\* the calls of func so far have all had an outcome of the set S
AllCalls(S) == \A i \in DOMAIN retry.calls : retry.calls[i] \in S

\* what C20 says of every call, whatever a failed result looks like: at most
\* max_retries calls of func; what is returned has passed validation and
\* nothing that would have been returned was passed over; an exception
\* leaves after exactly max_retries calls, the one of func when the last
\* attempt raised, and when every attempt raised
RetryCommon ==
    LET n == Len(retry.calls)
    IN  /\ n <= retry.max_retries
        /\ pc = "retry_returned" =>
            /\ n >= 1
            /\ retry.calls[n] # "raises"
            /\ retry.validation => retry.calls[n] \in {"valid", "repairable"}
            /\ \A i \in 1..(n - 1) :
                retry.calls[i] \in
                    (IF retry.validation THEN {"invalid", "raises"} ELSE {"raises"})
            /\ retry.calls[1] = "valid" => n = 1
        /\ pc = "retry_raised" =>
            /\ n = retry.max_retries
            /\ retry.error \in {"func", "LLMOutputValidationError"}
            /\ retry.error = "func" <=> (n >= 1 /\ retry.calls[n] = "raises")
        /\ (RetryEnded /\ n >= 1 /\ AllCalls({"raises"})) =>
            pc = "retry_raised" /\ retry.error = "func" /\ n = retry.max_retries

\* C20 (as stated): retry_with_backoff calls func at most max_retries times;
\* it returns the first result of func that passes validation, and when every
\* attempt fails validation it raises LLMOutputValidationError after exactly
\* max_retries calls; when every attempt raises, the last exception is raised
\* again after exactly max_retries calls.
C20_RetryReturnsFirstValid ==
    (pc \in {"retry", "retry_returned", "retry_raised"}) =>
        /\ RetryCommon
        /\ (pc = "retry_returned" /\ retry.validation) =>
              retry.value = "valid" /\ retry.calls[Len(retry.calls)] = "valid"
        /\ (RetryEnded /\ retry.validation /\ AllCalls({"invalid", "repairable"})) =>
              /\ pc = "retry_raised"
              /\ retry.error = "LLMOutputValidationError"
              /\ Len(retry.calls) = retry.max_retries

\* C20 (amended): on every attempt but the last, a string result that fails
\* validation is repaired, and a repaired form that passes validation is
\* returned at once; so what is returned is the first result that passes
\* validation or the first repaired form that does, and
\* LLMOutputValidationError is raised after exactly max_retries calls when
\* every attempt fails validation and no repaired form was returned.
C20_RetryReturnsFirstValidOrRepaired ==
    (pc \in {"retry", "retry_returned", "retry_raised"}) =>
        /\ RetryCommon
        /\ (pc = "retry_returned" /\ retry.validation) =>
              LET n == Len(retry.calls)
              IN  \/ retry.calls[n] = "valid" /\ retry.value = "valid"
                  \/ /\ retry.calls[n] = "repairable"
                     /\ retry.value = "repaired"
                     /\ n < retry.max_retries
        /\ (RetryEnded /\ retry.validation /\ AllCalls({"invalid", "repairable"})
            /\ retry.value # "repaired") =>
              /\ pc = "retry_raised"
              /\ retry.error = "LLMOutputValidationError"
              /\ Len(retry.calls) = retry.max_retries
        /\ Len(retry.slept) = retry.attempt

\* a call with max_retries = 3 whose first attempt raised, whose second
\* failed validation and whose third passed it
C20_Witness ==
    /\ pc = "retry_returned"
    /\ retry.max_retries = MaxRetries
    /\ retry.calls = <<"raises", "invalid", "valid">>
    /\ retry.value = "valid"
    /\ retry.slept = <<initial_delay_default,
                       initial_delay_default * backoff_factor_default>>

\* C21: alert_rule_roas_drop returns alerted = true exactly when the ROAS drop
\* exceeds the configured threshold and the validation rate is below 0.5; in
\* particular it never alerts when the drop does not exceed the threshold.
C21_AlertsIffDropAndLowRate ==
    pc = "alert_rule" =>
        /\ evidence.alerted <=>
              (Gt(roas_drop_of(metrics), threshold_val_of(cfg))
               /\ Lt(safe_float(Get(metrics, "validation_rate", F(0)), F(0)), F(50000)))
        /\ ~Gt(roas_drop_of(metrics), threshold_val_of(cfg)) => ~evidence.alerted

\* C22: a finite delta not below -0.40 is medium when it is below -0.20, low
\* when it is in [-0.20, -0.05) and none from -0.05 on; the break points
\* -0.40, -0.20 and -0.05 themselves are medium, low and none.
C22_SeverityTiers ==
    (pc = "severity" /\ IsFinite(evidence.delta) /\ evidence.delta.v >= -40000) =>
        /\ evidence.severity = "medium" <=> evidence.delta.v < -20000
        /\ evidence.severity = "low" <=>
              (evidence.delta.v >= -20000 /\ evidence.delta.v < -5000)
        /\ evidence.severity = "none" <=> evidence.delta.v >= -5000

\* the break point -0.20 has been classified low
C22_Witness ==
    /\ pc = "severity"
    /\ evidence.delta = F(-20000)
    /\ evidence.severity = "low"

\* pct_delta as the claim C23 defines it, on two finite floats
PctDeltaOf(latest, baseline_val) ==
    IF baseline_val.v = 0 /\ latest.v = 0 THEN F(0)
    ELSE IF baseline_val.v = 0 THEN PosInf
    ELSE F(RDiv(latest.v - baseline_val.v, baseline_val.v))

\* the deltas of an Evidence record e are the pct_delta of its own last_* and
\* *_baseline values
DeltasOfOwnValues(e) ==
    /\ e.ctr_delta_pct = PctDeltaOf(e.last_ctr, e.ctr_baseline)
    /\ e.roas_delta_pct = PctDeltaOf(e.last_roas, e.roas_baseline)

\* the Evidence records of the state: the one the Evidence Builder has
\* returned, and the ones in the Verdicts validate has produced from it
EvidenceRecords ==
    (IF pc \in {"evidence", "loop", "done"} /\ "last_roas" \in DOMAIN evidence
     THEN {evidence} ELSE {})
    \cup (IF pc \in {"loop", "done"}
          THEN {validated[i].evidence :
                    i \in {j \in DOMAIN validated : ~IsDegraded(validated[j])}}
          ELSE {})

\* C23: pct_delta(latest, baseline) is 0.0 when both are 0, the infinite
\* sentinel when only the baseline is 0, and (latest - baseline) / baseline
\* otherwise; in every Evidence record the two deltas are the pct_delta of
\* the last_* and *_baseline values of that same record.
C23_DeltasArePctDelta ==
    \A e \in EvidenceRecords : DeltasOfOwnValues(e)

\* the Evidence Builder has returned a record with a zero ROAS baseline and a
\* ROAS that is not zero, and with a CTR below its baseline
C23_Witness ==
    /\ pc = "evidence"
    /\ "last_roas" \in DOMAIN evidence
    /\ evidence.roas_baseline = F(0)
    /\ evidence.last_roas = F(30000)
    /\ evidence.roas_delta_pct = PosInf
    /\ evidence.ctr_baseline = F(0)
    /\ evidence.last_ctr = F(900)
    /\ evidence.ctr_delta_pct = PosInf

\* the ROAS of the most recent calendar day of the rows, from the sums of the
\* rows of that day
RoasOfLastDay(rows) ==
    LET last == SetMax(DatesOf(rows))
        rs == SelectSeq(rows, LAMBDA r : r.date = last)
        sp == SumSeq(Column(rs, "spend"))
        rev == SumSeq(Column(rs, "revenue"))
    IN  IF sp > 0 THEN F(RDiv(rev, sp)) ELSE F(0)

Summarized == pc \in {"summarized", "summary_evidence"}

\* the quotient num / den when den > 0, and exactly 0.0 otherwise
GuardedRatio(num, den) == IF den > 0 THEN F(RDiv(num, den)) ELSE F(0)

\* C25: in every daily and per-campaign aggregate of summarize_df, ctr is
\* clicks / impressions only when impressions > 0 and roas is revenue / spend
\* only when spend > 0; otherwise the value is exactly 0.0, also for a
\* negative denominator; no ctr or roas emitted is NaN or infinite.
C25_DivisionsGuarded ==
    Summarized =>
        /\ \A i \in DOMAIN summary.global.daily_roas :
            LET d == summary.global.daily_roas[i]
                rs == RowsOn(df.rows, d.date)
            IN  /\ d.roas = GuardedRatio(SumSeq(Column(rs, "revenue")),
                                         SumSeq(Column(rs, "spend")))
                /\ IsFinite(d.roas)
        /\ \A i \in DOMAIN summary.by_campaign :
            LET c == summary.by_campaign[i]
            IN  /\ c.ctr = GuardedRatio(c.clicks, c.impressions)
                /\ c.roas = GuardedRatio(c.revenue, c.spend)
                /\ IsFinite(c.ctr) /\ IsFinite(c.roas)

\* a summary with a campaign of negative impressions and spend, a campaign of
\* zero impressions and spend, and a campaign with a ctr and a roas
C25_Witness ==
    /\ pc = "summarized"
    /\ \E i, j, k \in DOMAIN summary.by_campaign :
        /\ summary.by_campaign[i].impressions < 0
        /\ summary.by_campaign[i].spend < 0
        /\ summary.by_campaign[i].ctr = F(0)
        /\ summary.by_campaign[i].roas = F(0)
        /\ summary.by_campaign[j].impressions = 0
        /\ summary.by_campaign[j].ctr = F(0)
        /\ summary.by_campaign[k].ctr.v > 0
        /\ summary.by_campaign[k].roas.v > 0
    /\ \E i \in DOMAIN summary.global.daily_roas :
        summary.global.daily_roas[i].roas.v > 0

\* the sum of column k over the rows rs
Total(rs, k) == SumSeq(Column(rs, k))

\* the rows that carry a campaign id
RowsWithCampaign(rows) == SelectSeq(rows, LAMBDA r : r.campaign # 0)

\* C26: summarize_df leaves the rows without a date out of the daily series
\* and the rows without a campaign out of by_campaign, while the global
\* totals sum over all rows: total_spend is the sum of spend over every row,
\* and the per-campaign spends add up to the spend of exactly the rows that
\* carry a campaign id.
C26_TotalsOverAllRows ==
    Summarized =>
        /\ \A k \in {"spend", "revenue", "impressions", "clicks"} \cap df.cols :
            summary.global[IF k = "spend" THEN "total_spend"
                           ELSE IF k = "revenue" THEN "total_revenue"
                           ELSE IF k = "impressions" THEN "total_impressions"
                           ELSE "total_clicks"] = Total(df.rows, k)
        /\ \A i \in DOMAIN summary.global.daily_roas :
            summary.global.daily_roas[i].date # 0
        /\ {"campaign", "spend"} \subseteq df.cols =>
            /\ {summary.by_campaign[i].campaign : i \in DOMAIN summary.by_campaign}
                  = {df.rows[i].campaign : i \in DOMAIN df.rows} \ {0}
            /\ Total(summary.by_campaign, "spend")
                  = Total(RowsWithCampaign(df.rows), "spend")

\* the daily points the statistic of the record was computed on: the valid
\* days of the trailing window when there are more valid days than
\* window_days, every valid day otherwise
ContributingDays ==
    IF Len(ValidDays) > cfg.d.window_days THEN DaysInWindow ELSE ValidDays

\* C27: rows_used of a Baseline or ThresholdSet is the number of daily points
\* that contributed to the statistic reported, so it lies between 0 and the
\* number of distinct days of the input; this also holds when the series has
\* more valid days than window_days and the statistic is computed on the
\* trailing window only.
C27_RowsUsedCountsContributingDays ==
    (StatsCalled /\ "raised" \notin DOMAIN baseline) =>
        /\ baseline.rows_used >= 0
        /\ baseline.rows_used <= Cardinality(DatesOf(df.rows))
        /\ (pc \in {"baselines", "ctr_baseline"} /\ ValidDays # << >>
            /\ Len(ValidDays) >= cfg.d.min_days) =>
                baseline.rows_used = Len(ContributingDays)

\* the Verdict v after apply_retry_logic as C28 describes it, for the extra
\* aggregates e
AdjustedForSmallSample(v, e) ==
    IF Get(e, "rows", 0) < 50 /\ Lt(v.confidence, F(60000))
    THEN SetKey(SetKey(v, "confidence",
                       F(IF v.confidence.v + 10000 < 60000
                         THEN v.confidence.v + 10000 ELSE 60000)),
                "notes", <<"confidence_adjusted_for_small_sample">>)
    ELSE v

\* C28: for a dataset with fewer than 50 rows, apply_retry_logic raises by
\* 0.1, at most to 0.6, the confidence of each Verdict of validate whose
\* confidence is below 0.6 and marks it with the note
\* confidence_adjusted_for_small_sample; the Verdicts with a confidence of at
\* least 0.6, and all Verdicts of a dataset with 50 rows or more, are
\* returned unchanged.
C28_SmallSampleNudge ==
    [][(pc = "done" /\ pc' = "retry_applied") =>
        /\ Len(validated') = Len(validated)
        /\ \A i \in DOMAIN validated :
            validated'[i] = AdjustedForSmallSample(validated[i], extra')]_vars

\* C29: a run reports schema drift only when the columns or dtypes of its
\* dataset differ from the fingerprint the previous run has stored; when the
\* schema is the same in two consecutive runs, the second reports no drift.
C29_DriftOnlyOnSchemaChange ==
    \A k \in DOMAIN runs :
        (/\ runs[k].at \in {"alerting", "alert_read", "ended"}
         /\ runs[k].drift
         /\ runs[k].after_the_others
         /\ k = Len(runs)) =>
            runs[k].previous # schema_fingerprint_from_df(runs[k].schema)

\* C30: write_alert is append-only: after any sequence of calls, calls of
\* concurrent runs included, the alerts file holds every alert written so
\* far, in the order of the writes.
C30_AlertsAppendOnly ==
    files.alerts = files.written

====
